---- MODULE Spec2Model ----
(***************************************************************************)
(* Verification model of the widescreen-research orchestrator:             *)
(*   - the fleet-based research session (OrchestrateResearch and the tasks  *)
(*     it spawns: provisioning, monitor, collector, cleanup),               *)
(*   - the per-session ResearchQueue (bus consumer, result/error channels), *)
(*   - the subprocess websets client (StdIOWebsetsClient),                  *)
(*   - the elicitation manager and the request handlers that use it,        *)
(*   - the websets pipeline (RunWebsetsPipeline and WebsetsOperations),     *)
(*   - the session registry shared by concurrent OrchestrateResearch calls. *)
(* Time is a discrete clock; one unit stands for one ticker period.         *)
(***************************************************************************)
EXTENDS Integers, Sequences, FiniteSets, TLC

\* ---------------------------------------------------------------- bounds
MaxWorkers == 2      \* largest researcher count a request may carry
MaxPublish == 2      \* bus messages published during one session
MaxClock == 2        \* the clock stops here unless a wait is pending
MaxResults == 3      \* cap on the length of session.Results
MaxCalls == 2        \* concurrent Call() invocations on one client
MaxSpawn == 3        \* child processes the client may spawn
AttemptCap == 3      \* cap on the CallTool attempts counted per Call()
MaxSubscribe == 2    \* Subscribe calls made on one queue
MaxSessions == 2     \* elicitation sessions the manager creates
MaxHandlers == 2     \* elicitation requests handled concurrently
CallCap == 4         \* ProcessAnswers calls are counted per session up to this
MaxHours == 2        \* the elicitation clock stops here
MaxItems == 2        \* content items one list response carries
MaxWebsets == 2      \* webset ids the websets tool may hand out
MaxRuns == 3         \* OrchestrateResearch calls the handlers make in one run

\* ------------------------------------------------------ program constants
Timeout == 1         \* config.TimeoutMinutes, in clock units
ResultChanCap == 100 \* make(chan schemas.DroneResult, 100)
ErrorChanCap == 10   \* make(chan error, 10)
Hour == 1            \* the eviction age of cleanupOldSessions, in hours
DefaultCount == 10   \* getIntAnswer(session, "researcher_count", 10)
DefaultTimeout == 60 \* getIntAnswer(session, "timeout_minutes", 60)
PollTimeout == 90    \* the 15*time.Minute wait, in ticker periods of 10 s

Workers == 1..MaxWorkers
Callers == 1..MaxCalls
SessionIds == 1..MaxSessions
Handlers == 1..MaxHandlers

TerminalStatuses == {"completed", "failed", "timeout", "failed_report_generation"}
ResultStatuses == {"completed", "failed"}

\* Return value of OrchestrateResearch: (result, err). NilResult is the nil
\* *ResearchResult, err = "" the nil error.
NilResult == [status |-> "nil", provisioned |-> 0, completed |-> 0, failed |-> 0]
NotReturned == [result |-> NilResult, err |-> ""]
\* The zero DroneResult, and the payloads a worker can publish: a DroneResult
\* with its drone id and status, or bytes that do not decode (BadPayload).
ZeroResult == [drone |-> 0, status |-> ""]
BadPayload == [drone |-> 0, status |-> "undecodable"]
Payloads == [drone : Workers, status : ResultStatuses] \cup {BadPayload}

VARIABLES
    \* ---- orchestrator / session
    opc,            \* position of the OrchestrateResearch call
    sessionStatus,  \* session.Status
    active,         \* session id present in o.activeSessions
    count,          \* session.Config.ResearcherCount
    drones,         \* session.Drones: worker -> status ("absent" = no entry)
    provPc,         \* provisioning goroutine of each worker
    hostCreated,    \* workers whose deployDrone succeeded
    deletes,        \* worker -> number of deleteDroneService invocations
    nSub,           \* len(subQueries) after truncation
    dispSnap,       \* drones still to visit in the dispatch loop
    dispIdx,        \* loop index i of the dispatch loop
    instructed,     \* workers that received their instruction
    results,        \* session.Results
    waitDeadline,   \* deadline computed by waitForCompletion
    startTime,      \* session.StartTime
    outcome,        \* value returned by OrchestrateResearch
    monPc,          \* monitorSession goroutine
    colPc,          \* collectResults goroutine
    cleanPc, cleanSnap, cleanupSpawned, \* cleanupSession goroutine
    topicDeleted,   \* topic.Delete of the session topic succeeded
    clock,          \* time.Now()
    racyWrites,     \* shared session fields written so far without holding o.mu
    \* ---- result queue
    bus,            \* messages waiting on the subscription: payload -> how many
    published,      \* every message the bus has accepted: payload -> how many
    resultChan,     \* q.resultChan
    errorChan,      \* number of errors buffered in q.errorChan
    qResults,       \* len(q.results)
    qClosed,        \* Close() has closed both channels
    subscribed,     \* receiveMessages is running
    consumers,      \* number of receiveMessages goroutines started
    backlog,        \* messages handled and still unread when the run starts
    acked, nacked,  \* number of msg.Ack() and of msg.Nack() calls
    dropped,        \* results the consumer did not send because the channel was full
    panicked,       \* callbacks that sent on a closed channel
    \* ---- subprocess websets client (StdIOWebsetsClient)
    cSession,       \* c.session: id of the current MCP session, 0 = nil
    cStarted,       \* c.started
    cMu,            \* the caller holding c.mu inside Connect, or 0
    nextSid,        \* number of child processes spawned so far
    closedSess,     \* sessions on which Close() was called
    cpc,            \* position of each caller inside Call()
    cLocal,         \* each caller's local variable session
    tries,          \* CallTool invocations made by each Call()
    reconnects,     \* Connect invocations made by each Call() to recover
    firstTransport, \* the first CallTool of the Call() hit a transport error
    cResult,        \* what each Call() returned
    cErr,           \* the CallTool error each Call() returned wrapped, if any
    \* ---- elicitation manager and its request handlers
    eState,         \* em.sessions[id].State ("absent" = no entry)
    eAnswers,       \* em.sessions[id].Answers
    eUpdated,       \* em.sessions[id].LastUpdated
    eCalls,         \* ProcessAnswers calls that found the session, per session
    eNextId,        \* number of session ids generated so far
    evictPending,   \* cleanupOldSessions goroutines started and not yet run
    eTime,          \* time.Now() of the elicitation manager
    rq,             \* each handler's request and position
    eResp,          \* the response sent most recently
    \* ---- websets pipeline (RunWebsetsPipeline and WebsetsOperations)
    ppc,            \* position of the RunWebsetsPipeline call
    websetId,       \* websetID returned by CreateWebset, 0 = none
    lastPoll,       \* what the latest get_webset_status call gave
    pClock,         \* time.Now() of the pipeline, in ticker periods
    pDeadline,      \* deadline computed by WaitForWebsetCompletion
    pItems,         \* len(items) returned by ListContentItems
    pIdx,           \* items the publish loop has gone through
    pubCalls,       \* topic.Publish calls made
    pubAccepted,    \* publishes the bus confirmed
    pubTopics,      \* topics on which Publish was called
    pOutcome,       \* value returned by RunWebsetsPipeline
    \* ---- the orchestrator's session registry (o.activeSessions)
    runs,           \* each handler's OrchestrateResearch call: position and session id
    entryOf,        \* o.activeSessions[id]: the handler whose call stored it, 0 = no entry
    queuesMade,     \* NewResearchQueue(id) objects created, per session id
    deployReqs      \* CreateService requests made for worker drone-<id>-0, per session id

orchVars == <<opc, sessionStatus, active, count, drones, provPc, hostCreated,
              deletes, nSub, dispSnap, dispIdx, instructed, results,
              waitDeadline, startTime, outcome, monPc, colPc,
              cleanPc, cleanSnap, cleanupSpawned, topicDeleted, clock, racyWrites>>
queueVars == <<bus, published, resultChan, errorChan, qResults, qClosed, subscribed,
               consumers, backlog, acked, nacked, dropped, panicked>>

clientVars == <<cSession, cStarted, cMu, nextSid, closedSess, cpc, cLocal, tries,
                reconnects, firstTransport, cResult, cErr>>

elicitVars == <<eState, eAnswers, eUpdated, eCalls, eNextId, evictPending, eTime,
                rq, eResp>>

pipeVars == <<ppc, websetId, lastPoll, pClock, pDeadline, pItems, pIdx, pubCalls,
              pubAccepted, pubTopics, pOutcome>>

regVars == <<runs, entryOf, queuesMade, deployReqs>>

vars == <<orchVars, queueVars, clientVars, elicitVars, pipeVars, regVars>>

\* ------------------------------------------------------------ helpers
Min(a, b) == IF a < b THEN a ELSE b

DroneSet == {w \in Workers : drones[w] # "absent"}

RECURSIVE CountStatus(_, _)
CountStatus(rs, st) ==
    IF rs = <<>> THEN 0
    ELSE (IF Head(rs).status = st THEN 1 ELSE 0) + CountStatus(Tail(rs), st)

\* calculateMetrics: provisioned = len(session.Drones); a result counts as
\* completed when its status is "completed" and as failed otherwise.
calculateMetrics ==
    [status |-> "completed",
     provisioned |-> Cardinality(DroneSet),
     completed |-> CountStatus(results, "completed"),
     failed |-> Len(results) - CountStatus(results, "completed")]

Failure(msg) == [result |-> NilResult, err |-> msg]

\* Record of a write to shared session state: a write made while o.mu is held
\* leaves the set alone, one made without it adds its target.
Write(target, locked) == IF locked THEN racyWrites ELSE racyWrites \cup {target}

\* ------------------------------------------------------------ initial state
\* NewOrchestrator: no session yet, no goroutine running.
InitOrchestrator ==
    /\ opc = "idle"
    /\ sessionStatus = "none"
    /\ active = FALSE
    /\ count = 0
    /\ drones = [w \in Workers |-> "absent"]
    /\ provPc = [w \in Workers |-> "none"]
    /\ hostCreated = {}
    /\ deletes = [w \in Workers |-> 0]
    /\ nSub = 0
    /\ dispSnap = {}
    /\ dispIdx = 0
    /\ instructed = {}
    /\ results = <<>>
    /\ waitDeadline = 0
    /\ startTime = 0
    /\ outcome = NotReturned
    /\ monPc = "off"
    /\ colPc = "off"
    /\ cleanPc = "off"
    /\ cleanSnap = {}
    /\ cleanupSpawned = FALSE
    /\ topicDeleted = FALSE
    /\ clock = 0
    /\ racyWrites = {}

\* The payload of the results that make up a backlog.
BacklogResult == [drone |-> 1, status |-> "completed"]

\* A queue whose consumer has handled k results and e undecodable messages
\* that nobody has read yet: the results were appended to q.results, sent to
\* q.resultChan and acked, the decode errors were sent to q.errorChan and
\* their messages nacked. With k = e = 0 this is the queue NewResearchQueue
\* returns.
QueueWithBacklog(k, e) ==
    /\ bus = [m \in Payloads |-> 0]
    /\ published = [m \in Payloads |->
                      IF m = BacklogResult THEN k ELSE IF m = BadPayload THEN e ELSE 0]
    /\ resultChan = [i \in 1..k |-> BacklogResult]
    /\ errorChan = e
    /\ qResults = k
    /\ qClosed = FALSE
    /\ subscribed = (k + e > 0)
    /\ consumers = IF k + e > 0 THEN 1 ELSE 0
    /\ backlog = k + e
    /\ acked = k
    /\ nacked = e
    /\ dropped = 0
    /\ panicked = 0

\* NewStdIOWebsetsClient: not connected, no caller inside Call().
InitClient ==
    /\ cSession = 0
    /\ cStarted = FALSE
    /\ cMu = 0
    /\ nextSid = 0
    /\ closedSess = {}
    /\ cpc = [c \in Callers |-> "idle"]
    /\ cLocal = [c \in Callers |-> 0]
    /\ tries = [c \in Callers |-> 0]
    /\ reconnects = [c \in Callers |-> 0]
    /\ firstTransport = [c \in Callers |-> FALSE]
    /\ cResult = [c \in Callers |-> ""]
    /\ cErr = [c \in Callers |-> ""]

\* ---- elicitation values
\* An answer value carries its dynamic Go type; val is the number for an int,
\* the number in tenths for a float64 (20 = 2.0, 27 = 2.7), and for a string
\* its index in the string table (0 = "", 1 = a non-empty text).
AnswerKeys == {"research_topic", "researcher_count", "timeout_minutes"}
Unset == [type |-> "none", val |-> 0]
AnswerValues == {[type |-> "string", val |-> 1],
                 [type |-> "float64", val |-> 20],
                 [type |-> "int", val |-> 2]}
NoAnswers == [k \in AnswerKeys |-> Unset]
\* The answer maps a request may carry: a topic text, or a researcher count
\* as a JSON number (which decodes to float64).
Submissions ==
    {a \in [AnswerKeys -> AnswerValues \cup {Unset}] :
        /\ a["timeout_minutes"] = Unset
        /\ \/ a["research_topic"].type = "string" /\ a["researcher_count"] = Unset
           \/ a["research_topic"] = Unset /\ a["researcher_count"].type = "float64"}

\* The nil *ResearchConfig, an idle handler and the absence of a response. A
\* response records the session id of its request and whether GetState
\* found that session.
NilConfig == [nil |-> TRUE, sid |-> 0, topic |-> 0, count |-> 0, timeout |-> 0]
NoRequest == [pc |-> "idle", sid |-> 0, answers |-> NoAnswers]
NoResponse == [type |-> "none", sid |-> 0, reqSid |-> 0, found |-> FALSE,
               questions |-> "nil", config |-> NilConfig]

\* NewElicitationManager: an empty sessions map.
NewElicitationManager ==
    /\ eState = [i \in SessionIds |-> "absent"]
    /\ eAnswers = [i \in SessionIds |-> NoAnswers]
    /\ eUpdated = [i \in SessionIds |-> 0]
    /\ eCalls = [i \in SessionIds |-> 0]
    /\ eNextId = 0
    /\ evictPending = 0
    /\ eTime = 0
    /\ rq = [h \in Handlers |-> NoRequest]
    /\ eResp = NoResponse

\* ---- websets pipeline values
\* An error is the list of the messages wrapped into it, outermost first:
\* fmt.Errorf("m: %w", err) puts m in front of the messages of err.
NoError == <<>>
Wrap(msg, err) == <<msg>> \o err
ErrorContains(err, text) == \E i \in 1..Len(err) : err[i] = text

\* The (nil, nil) return of RunWebsetsPipeline before it has returned.
NoPipelineResult == [status |-> "nil", itemCount |-> 0, err |-> NoError]

\* No pipeline call has been made.
InitPipeline ==
    /\ ppc = "idle"
    /\ websetId = 0
    /\ lastPoll = "none"
    /\ pClock = 0
    /\ pDeadline = 0
    /\ pItems = 0
    /\ pIdx = 0
    /\ pubCalls = 0
    /\ pubAccepted = 0
    /\ pubTopics = {}
    /\ pOutcome = NoPipelineResult

\* No OrchestrateResearch call is under way; NewOrchestrator made
\* activeSessions empty.
NoRun == [pc |-> "idle", sid |-> 0, count |-> 0]

InitRegistry ==
    /\ runs = [h \in Handlers |-> NoRun]
    /\ entryOf = [i \in SessionIds |-> 0]
    /\ queuesMade = [i \in SessionIds |-> 0]
    /\ deployReqs = [i \in SessionIds |-> 0]

Init ==
    /\ InitOrchestrator
    /\ QueueWithBacklog(0, 0)
    /\ InitClient
    /\ NewElicitationManager
    /\ InitPipeline
    /\ InitRegistry

\* ------------------------------------------------ OrchestrateResearch
\* Session allocation under o.mu, registration in activeSessions, start of the
\* monitor goroutine and of one provisioning goroutine per researcher.
OrchestrateResearch(n) ==
    /\ opc = "idle"
    /\ opc' = "provision"
    /\ sessionStatus' = "initializing"
    /\ active' = TRUE
    /\ count' = n
    /\ startTime' = clock
    /\ monPc' = "idle"
    /\ provPc' = [w \in Workers |-> IF w <= n THEN "deploying" ELSE "none"]
    /\ racyWrites' = Write("sessions", TRUE)
    /\ UNCHANGED <<drones, hostCreated, deletes, nSub, dispSnap, dispIdx,
                   instructed, results, waitDeadline, outcome, colPc, cleanPc,
                   cleanSnap, cleanupSpawned, topicDeleted, clock, queueVars,
                   clientVars, elicitVars, pipeVars, regVars>>

\* deployDrone succeeded: the goroutine inserts the drone under o.mu.Lock.
DeployOk(w) ==
    /\ opc = "provision"
    /\ provPc[w] = "deploying"
    /\ provPc' = [provPc EXCEPT ![w] = "done"]
    /\ hostCreated' = hostCreated \cup {w}
    /\ drones' = [drones EXCEPT ![w] = "deployed"]
    /\ racyWrites' = Write("drones", TRUE)
    /\ UNCHANGED <<opc, sessionStatus, active, count, deletes, nSub, dispSnap,
                   dispIdx, instructed, results, waitDeadline, startTime,
                   outcome, monPc, colPc, cleanPc, cleanSnap, cleanupSpawned,
                   topicDeleted, clock, queueVars, clientVars, elicitVars,
                   pipeVars, regVars>>

\* deployDrone failed: the error goes to the errors channel.
DeployFail(w) ==
    /\ opc = "provision"
    /\ provPc[w] = "deploying"
    /\ provPc' = [provPc EXCEPT ![w] = "failed"]
    /\ UNCHANGED <<opc, sessionStatus, active, count, drones, hostCreated,
                   deletes, nSub, dispSnap, dispIdx, instructed, results,
                   waitDeadline, startTime, outcome, monPc, colPc, cleanPc,
                   cleanSnap, cleanupSpawned, topicDeleted, clock, racyWrites,
                   queueVars, clientVars, elicitVars, pipeVars, regVars>>

ProvisionJoined == \A w \in Workers : provPc[w] \in {"none", "done", "failed"}
ProvisionErrors == {w \in Workers : provPc[w] = "failed"}

\* wg.Wait() returned with at least one error: status "failed", error returned.
ProvisionFailed ==
    /\ opc = "provision"
    /\ ProvisionJoined
    /\ ProvisionErrors # {}
    /\ sessionStatus' = "failed"
    /\ racyWrites' = Write("status", FALSE)
    /\ outcome' = Failure("failed to provision drones")
    /\ opc' = "returned"
    /\ UNCHANGED <<active, count, drones, provPc, hostCreated, deletes, nSub,
                   dispSnap, dispIdx, instructed, results, waitDeadline,
                   startTime, monPc, colPc, cleanPc, cleanSnap, cleanupSpawned,
                   topicDeleted, clock, queueVars, clientVars, elicitVars,
                   pipeVars, regVars>>

\* wg.Wait() returned without errors: status "running", on to coordination.
ProvisionSucceeded ==
    /\ opc = "provision"
    /\ ProvisionJoined
    /\ ProvisionErrors = {}
    /\ sessionStatus' = "running"
    /\ racyWrites' = Write("status", FALSE)
    /\ opc' = "plan"
    /\ UNCHANGED <<active, count, drones, provPc, hostCreated, deletes, nSub,
                   dispSnap, dispIdx, instructed, results, waitDeadline,
                   startTime, outcome, monPc, colPc, cleanPc, cleanSnap,
                   cleanupSpawned, topicDeleted, clock, queueVars, clientVars,
                   elicitVars, pipeVars, regVars>>

\* coordinateResearch, step 1: the planner returned k sub-queries; the list is
\* truncated to the number of drones and the drones are snapshotted.
PlanOk(k) ==
    /\ opc = "plan"
    /\ nSub' = Min(k, Cardinality(DroneSet))
    /\ dispSnap' = DroneSet
    /\ dispIdx' = 0
    /\ opc' = "dispatch"
    /\ UNCHANGED <<sessionStatus, active, count, drones, provPc, hostCreated,
                   deletes, instructed, results, waitDeadline, startTime,
                   outcome, monPc, colPc, cleanPc, cleanSnap, cleanupSpawned,
                   topicDeleted, clock, racyWrites, queueVars, clientVars,
                   elicitVars, pipeVars, regVars>>

\* coordinateResearch, step 1: the planner failed; status "failed", error returned.
PlanFail ==
    /\ opc = "plan"
    /\ sessionStatus' = "failed"
    /\ racyWrites' = Write("status", FALSE)
    /\ outcome' = Failure("failed to coordinate research")
    /\ opc' = "returned"
    /\ UNCHANGED <<active, count, drones, provPc, hostCreated, deletes, nSub,
                   dispSnap, dispIdx, instructed, results, waitDeadline,
                   startTime, monPc, colPc, cleanPc, cleanSnap, cleanupSpawned,
                   topicDeleted, clock, queueVars, clientVars, elicitVars,
                   pipeVars, regVars>>

\* Variant of AfterDispatch: an error of sendInstructionsToDrone is returned
\* by coordinateResearch, which ends the session.
AfterDispatchAbort(ok) == IF ok THEN "dispatch" ELSE "returned"

\* Where the dispatch loop goes after one sendInstructionsToDrone: to its next
\* iteration, whether the call succeeded or not.
AfterDispatch(ok) == "dispatch"

\* One iteration of the dispatch loop: sendInstructionsToDrone to drone d.
\* ok: the POST returned 200. reached: the worker received the instruction
\* (always when ok; possibly also when the call reported an error).
Dispatch(d, ok, reached) ==
    /\ opc = "dispatch"
    /\ d \in dispSnap
    /\ dispIdx < nSub
    /\ ok => reached
    /\ drones' = [drones EXCEPT ![d] = IF ok THEN "running" ELSE "failed_to_instruct"]
    /\ racyWrites' = Write("drones", FALSE)
    /\ instructed' = IF reached THEN instructed \cup {d} ELSE instructed
    /\ dispSnap' = dispSnap \ {d}
    /\ dispIdx' = dispIdx + 1
    /\ opc' = AfterDispatch(ok)
    /\ UNCHANGED <<sessionStatus, active, count, provPc, hostCreated, deletes,
                   nSub, results, waitDeadline, startTime, outcome, monPc, colPc,
                   cleanPc, cleanSnap, cleanupSpawned, topicDeleted, clock,
                   queueVars, clientVars, elicitVars, pipeVars, regVars>>

\* The dispatch loop ended: collectResults is started and waitForCompletion
\* computes its deadline.
DispatchDone ==
    /\ opc = "dispatch"
    /\ dispSnap = {} \/ dispIdx >= nSub
    /\ colPc' = "subscribing"
    /\ waitDeadline' = clock + Timeout
    /\ opc' = "wait"
    /\ UNCHANGED <<sessionStatus, active, count, drones, provPc, hostCreated,
                   deletes, nSub, dispSnap, dispIdx, instructed, results,
                   startTime, outcome, monPc, cleanPc, cleanSnap, cleanupSpawned,
                   topicDeleted, clock, racyWrites, queueVars, clientVars,
                   elicitVars, pipeVars, regVars>>

\* Variant of DeadlinePassed: the timeout is added a second time, so the wait
\* outlives every clock value it can observe.
DeadlinePassedLate(now, deadline) == now > deadline + Timeout + 1

\* time.Now().After(deadline)
DeadlinePassed(now, deadline) == now > deadline

\* waitForCompletion, ticker case: enough results were collected.
WaitComplete ==
    /\ opc = "wait"
    /\ Len(results) >= count
    /\ opc' = "report"
    /\ UNCHANGED <<sessionStatus, active, count, drones, provPc, hostCreated,
                   deletes, nSub, dispSnap, dispIdx, instructed, results,
                   waitDeadline, startTime, outcome, monPc, colPc, cleanPc,
                   cleanSnap, cleanupSpawned, topicDeleted, clock, racyWrites,
                   queueVars, clientVars, elicitVars, pipeVars, regVars>>

\* waitForCompletion, ticker case: too few results and the deadline has
\* passed; the caller sets status "failed" and returns the error.
WaitTimeout ==
    /\ opc = "wait"
    /\ Len(results) < count
    /\ DeadlinePassed(clock, waitDeadline)
    /\ sessionStatus' = "failed"
    /\ racyWrites' = Write("status", FALSE)
    /\ outcome' = Failure("research failed: research timeout")
    /\ opc' = "returned"
    /\ UNCHANGED <<active, count, drones, provPc, hostCreated, deletes, nSub,
                   dispSnap, dispIdx, instructed, results, waitDeadline,
                   startTime, monPc, colPc, cleanPc, cleanSnap, cleanupSpawned,
                   topicDeleted, clock, queueVars, clientVars, elicitVars,
                   pipeVars, regVars>>

\* generateReport failed: status "failed_report_generation", error returned.
ReportFail ==
    /\ opc = "report"
    /\ sessionStatus' = "failed_report_generation"
    /\ racyWrites' = Write("status", FALSE)
    /\ outcome' = Failure("failed to generate report")
    /\ opc' = "returned"
    /\ UNCHANGED <<active, count, drones, provPc, hostCreated, deletes, nSub,
                   dispSnap, dispIdx, instructed, results, waitDeadline,
                   startTime, monPc, colPc, cleanPc, cleanSnap, cleanupSpawned,
                   topicDeleted, clock, queueVars, clientVars, elicitVars,
                   pipeVars, regVars>>

\* generateReport succeeded (analyzeResults needs a first result): status
\* "completed", cleanupSession is spawned, the result carries the metrics.
ReportOk ==
    /\ opc = "report"
    /\ Len(results) > 0
    /\ sessionStatus' = "completed"
    /\ racyWrites' = Write("status", FALSE)
    /\ cleanPc' = "start"
    /\ cleanupSpawned' = TRUE
    /\ outcome' = [result |-> calculateMetrics, err |-> ""]
    /\ opc' = "returned"
    /\ UNCHANGED <<active, count, drones, provPc, hostCreated, deletes, nSub,
                   dispSnap, dispIdx, instructed, results, waitDeadline,
                   startTime, monPc, colPc, cleanSnap, topicDeleted, clock,
                   queueVars, clientVars, elicitVars, pipeVars, regVars>>

\* ------------------------------------------------------ monitorSession

\* One ticker tick: the drones are snapshotted under o.mu.RLock, each gets a
\* health probe (the drones in unhealthy fail it and are marked without the
\* lock), then the session timeout is checked (status written without the lock).
MonitorTick(unhealthy) ==
    /\ monPc = "idle"
    /\ unhealthy \subseteq DroneSet
    /\ drones' = [w \in Workers |-> IF w \in unhealthy THEN "unhealthy" ELSE drones[w]]
    /\ IF clock - startTime > Timeout
       THEN /\ sessionStatus' = "timeout"
            /\ monPc' = "exited"
       ELSE UNCHANGED <<sessionStatus, monPc>>
    /\ unhealthy # {} \/ clock - startTime > Timeout
    /\ racyWrites' = racyWrites \cup (IF unhealthy # {} THEN {"drones"} ELSE {})
                        \cup (IF clock - startTime > Timeout THEN {"status"} ELSE {})
    /\ UNCHANGED <<opc, active, count, provPc, hostCreated, deletes, nSub,
                   dispSnap, dispIdx, instructed, results, waitDeadline,
                   startTime, outcome, colPc, cleanPc, cleanSnap, cleanupSpawned,
                   topicDeleted, clock, queueVars, clientVars, elicitVars,
                   pipeVars, regVars>>

\* ------------------------------------------------------ workers and bus
RECURSIVE SumOver(_, _)
SumOver(f, S) ==
    IF S = {} THEN 0
    ELSE LET x == CHOOSE y \in S : TRUE IN f[x] + SumOver(f, S \ {x})

PublishedCount == SumOver(published, Payloads)

\* An instructed, still deployed worker publishes payload m on the session
\* topic: a result carrying its own drone id, or bytes that do not decode.
Publish(w, m) ==
    /\ subscribed
    /\ w \in instructed
    /\ w \in hostCreated
    /\ m = BadPayload \/ m.drone = w
    /\ PublishedCount < MaxPublish
    /\ bus' = [bus EXCEPT ![m] = @ + 1]
    /\ published' = [published EXCEPT ![m] = @ + 1]
    /\ UNCHANGED <<opc, sessionStatus, active, count, drones, provPc,
                   hostCreated, deletes, nSub, dispSnap, dispIdx, instructed,
                   results, waitDeadline, startTime, outcome, monPc, colPc,
                   cleanPc, cleanSnap, cleanupSpawned, topicDeleted, clock,
                   racyWrites, resultChan, errorChan, qResults, qClosed,
                   subscribed, consumers, backlog, acked, nacked, dropped,
                   panicked, clientVars, elicitVars, pipeVars, regVars>>

\* ------------------------------------------------------ ResearchQueue

\* Variant of TrySend: an unbuffered-like channel that takes one value only.
TrySendOneSlot(ch, v) == IF Len(ch) < 1 THEN Append(ch, v) ELSE ch

\* Variant of TrySend: a send that always succeeds, as on an unbounded channel.
TrySendUnbounded(ch, v) == Append(ch, v)

\* The select with a default case: send when the buffer has room, drop otherwise.
TrySend(ch, v) == IF Len(ch) < ResultChanCap THEN Append(ch, v) ELSE ch

\* The receiveMessages callback for one delivered message with payload m. A
\* payload that does not decode is reported with a blocking send on
\* q.errorChan and nacked. A decoded result is appended to q.results, offered
\* to q.resultChan without blocking, and acked whether it was sent or dropped.
\* A send on a closed channel panics.
HandleMessage(m) ==
    /\ subscribed
    /\ bus[m] > 0
    /\ bus' = [bus EXCEPT ![m] = @ - 1]
    /\ IF m = BadPayload
       THEN /\ qClosed \/ errorChan < ErrorChanCap
            /\ errorChan' = IF qClosed THEN errorChan ELSE errorChan + 1
            /\ nacked' = IF qClosed THEN nacked ELSE nacked + 1
            /\ panicked' = IF qClosed THEN panicked + 1 ELSE panicked
            /\ UNCHANGED <<qResults, resultChan, acked, dropped>>
       ELSE /\ qResults' = qResults + 1
            /\ resultChan' = IF qClosed THEN resultChan ELSE TrySend(resultChan, m)
            /\ acked' = IF qClosed THEN acked ELSE acked + 1
            /\ dropped' = IF ~qClosed /\ Len(resultChan) >= ResultChanCap
                          THEN dropped + 1 ELSE dropped
            /\ panicked' = IF qClosed THEN panicked + 1 ELSE panicked
            /\ UNCHANGED <<errorChan, nacked>>
    /\ UNCHANGED <<opc, sessionStatus, active, count, drones, provPc,
                   hostCreated, deletes, nSub, dispSnap, dispIdx, instructed,
                   results, waitDeadline, startTime, outcome, monPc, colPc,
                   cleanPc, cleanSnap, cleanupSpawned, topicDeleted, clock,
                   racyWrites, published, qClosed, subscribed, consumers,
                   backlog, clientVars, elicitVars, pipeVars, regVars>>

\* ------------------------------------------------------ collectResults

\* Queue.Subscribe: on success receiveMessages is started; on failure the
\* collector returns.
CollectorSubscribe(ok) ==
    /\ colPc = "subscribing"
    /\ colPc' = IF ok THEN "running" ELSE "exited"
    /\ subscribed' = (subscribed \/ ok)
    /\ consumers' = IF ok THEN consumers + 1 ELSE consumers
    /\ UNCHANGED <<opc, sessionStatus, active, count, drones, provPc,
                   hostCreated, deletes, nSub, dispSnap, dispIdx, instructed,
                   results, waitDeadline, startTime, outcome, monPc, cleanPc,
                   cleanSnap, cleanupSpawned, topicDeleted, clock, racyWrites,
                   bus, published, resultChan, errorChan, qResults, qClosed,
                   backlog, acked, nacked, dropped, panicked, clientVars,
                   elicitVars, pipeVars, regVars>>

\* Variant of AppendResult: a result equal to one already collected is skipped.
AppendResultOnce(rs, r) ==
    IF \E i \in 1..Len(rs) : rs[i] = r THEN rs ELSE Append(rs, r)

\* session.Results = append(session.Results, result)
AppendResult(rs, r) == Append(rs, r)

\* A result is taken from the channel and, under o.mu.Lock, appended to
\* session.Results; a drone with that id gets the result's status.
Collect ==
    /\ colPc = "running"
    /\ resultChan # <<>>
    /\ Len(results) < MaxResults
    /\ resultChan' = Tail(resultChan)
    /\ results' = AppendResult(results, Head(resultChan))
    /\ drones' = IF Head(resultChan).drone \in DroneSet
                 THEN [drones EXCEPT ![Head(resultChan).drone] = Head(resultChan).status]
                 ELSE drones
    /\ racyWrites' = Write("drones", TRUE)
    /\ UNCHANGED <<opc, sessionStatus, active, count, provPc, hostCreated,
                   deletes, nSub, dispSnap, dispIdx, instructed, waitDeadline,
                   startTime, outcome, monPc, colPc, cleanPc, cleanSnap,
                   cleanupSpawned, topicDeleted, clock, bus, published,
                   errorChan, qResults, qClosed, subscribed, consumers, backlog,
                   acked, nacked, dropped, panicked, clientVars, elicitVars,
                   pipeVars, regVars>>

\* A receive on the closed, empty channel yields the zero DroneResult, which is
\* appended like any other.
CollectClosed ==
    /\ colPc = "running"
    /\ qClosed
    /\ resultChan = <<>>
    /\ Len(results) < MaxResults
    /\ results' = AppendResult(results, ZeroResult)
    /\ racyWrites' = Write("drones", TRUE)
    /\ UNCHANGED <<opc, sessionStatus, active, count, drones, provPc,
                   hostCreated, deletes, nSub, dispSnap, dispIdx, instructed,
                   waitDeadline, startTime, outcome, monPc, colPc, cleanPc,
                   cleanSnap, cleanupSpawned, topicDeleted, clock, queueVars,
                   clientVars, elicitVars, pipeVars, regVars>>

\* An error is taken from the error channel and logged.
CollectError ==
    /\ colPc = "running"
    /\ errorChan > 0
    /\ errorChan' = errorChan - 1
    /\ UNCHANGED <<opc, sessionStatus, active, count, drones, provPc,
                   hostCreated, deletes, nSub, dispSnap, dispIdx, instructed,
                   results, waitDeadline, startTime, outcome, monPc, colPc,
                   cleanPc, cleanSnap, cleanupSpawned, topicDeleted, clock,
                   racyWrites, bus, published, resultChan, qResults, qClosed,
                   subscribed, consumers, backlog, acked, nacked, dropped,
                   panicked, clientVars, elicitVars, pipeVars, regVars>>

\* ------------------------------------------------------ cleanupSession

\* The goroutine starts ranging over session.Drones.
CleanupStart ==
    /\ cleanPc = "start"
    /\ cleanSnap' = DroneSet
    /\ cleanPc' = "deleting"
    /\ UNCHANGED <<opc, sessionStatus, active, count, drones, provPc,
                   hostCreated, deletes, nSub, dispSnap, dispIdx, instructed,
                   results, waitDeadline, startTime, outcome, monPc, colPc,
                   cleanupSpawned, topicDeleted, clock, racyWrites, queueVars,
                   clientVars, elicitVars, pipeVars, regVars>>

\* Variant of AfterCleanupCall: a failed call ends cleanupSession.
AfterCleanupCallAbort(ok, next) == IF ok THEN next ELSE "done"

\* Where cleanupSession goes after a delete call: an error is logged and the
\* goroutine carries on as after a success.
AfterCleanupCall(ok, next) == next

\* deleteDroneService for one drone; a failure is logged only.
CleanupDelete(d, ok) ==
    /\ cleanPc = "deleting"
    /\ d \in cleanSnap
    /\ cleanPc' = AfterCleanupCall(ok, "deleting")
    /\ cleanSnap' = cleanSnap \ {d}
    /\ deletes' = [deletes EXCEPT ![d] = @ + 1]
    /\ hostCreated' = IF ok THEN hostCreated \ {d} ELSE hostCreated
    /\ UNCHANGED <<opc, sessionStatus, active, count, drones, provPc, nSub,
                   dispSnap, dispIdx, instructed, results, waitDeadline,
                   startTime, outcome, monPc, colPc, cleanupSpawned,
                   topicDeleted, clock, racyWrites, queueVars, clientVars,
                   elicitVars, pipeVars, regVars>>

\* topic.Delete; a failure is logged only.
CleanupTopic(ok) ==
    /\ cleanPc = "deleting"
    /\ cleanSnap = {}
    /\ topicDeleted' = ok
    /\ cleanPc' = AfterCleanupCall(ok, "close")
    /\ UNCHANGED <<opc, sessionStatus, active, count, drones, provPc,
                   hostCreated, deletes, nSub, dispSnap, dispIdx, instructed,
                   results, waitDeadline, startTime, outcome, monPc, colPc,
                   cleanSnap, cleanupSpawned, clock, racyWrites, queueVars,
                   clientVars, elicitVars, pipeVars, regVars>>

\* session.Queue.Close(): both channels are closed.
CleanupClose ==
    /\ cleanPc = "close"
    /\ qClosed' = TRUE
    /\ cleanPc' = "remove"
    /\ UNCHANGED <<opc, sessionStatus, active, count, drones, provPc,
                   hostCreated, deletes, nSub, dispSnap, dispIdx, instructed,
                   results, waitDeadline, startTime, outcome, monPc, colPc,
                   cleanSnap, cleanupSpawned, topicDeleted, clock, racyWrites,
                   bus, published, resultChan, errorChan, qResults, subscribed,
                   consumers, backlog, acked, nacked, dropped, panicked,
                   clientVars, elicitVars, pipeVars, regVars>>

\* delete(o.activeSessions, id) under o.mu.Lock.
CleanupRemove ==
    /\ cleanPc = "remove"
    /\ active' = FALSE
    /\ racyWrites' = Write("sessions", TRUE)
    /\ cleanPc' = "done"
    /\ UNCHANGED <<opc, sessionStatus, count, drones, provPc, hostCreated,
                   deletes, nSub, dispSnap, dispIdx, instructed, results,
                   waitDeadline, startTime, outcome, monPc, colPc, cleanSnap,
                   cleanupSpawned, topicDeleted, clock, queueVars, clientVars,
                   elicitVars, pipeVars, regVars>>

\* ------------------------------------------------------ environment

\* Time passes. The clock is capped, but never before a pending wait can
\* see its deadline pass.
Tick ==
    /\ opc # "idle"
    /\ clock < MaxClock \/ (opc = "wait" /\ clock <= waitDeadline)
    /\ clock' = clock + 1
    /\ UNCHANGED <<opc, sessionStatus, active, count, drones, provPc,
                   hostCreated, deletes, nSub, dispSnap, dispIdx, instructed,
                   results, waitDeadline, startTime, outcome, monPc, colPc,
                   cleanPc, cleanSnap, cleanupSpawned, topicDeleted, racyWrites,
                   queueVars, clientVars, elicitVars, pipeVars, regVars>>

Next ==
    \/ \E n \in 1..MaxWorkers : OrchestrateResearch(n)
    \/ \E w \in Workers : DeployOk(w)
    \/ \E w \in Workers : DeployFail(w)
    \/ ProvisionFailed
    \/ ProvisionSucceeded
    \/ \E k \in 0..(MaxWorkers + 1) : PlanOk(k)
    \/ PlanFail
    \/ \E d \in Workers, ok \in BOOLEAN, reached \in BOOLEAN : Dispatch(d, ok, reached)
    \/ DispatchDone
    \/ WaitComplete
    \/ WaitTimeout
    \/ ReportFail
    \/ ReportOk
    \/ \E unhealthy \in SUBSET Workers : MonitorTick(unhealthy)
    \/ \E w \in Workers, m \in Payloads : Publish(w, m)
    \/ \E m \in Payloads : HandleMessage(m)
    \/ \E ok \in BOOLEAN : CollectorSubscribe(ok)
    \/ Collect
    \/ CollectClosed
    \/ CollectError
    \/ CleanupStart
    \/ \E d \in Workers, ok \in BOOLEAN : CleanupDelete(d, ok)
    \/ \E ok \in BOOLEAN : CleanupTopic(ok)
    \/ CleanupClose
    \/ CleanupRemove
    \/ Tick

Spec == Init /\ [][Next]_vars

\* Fairness of the orchestrating call: every step of OrchestrateResearch is
\* eventually taken, every WorkerHost/planner/worker call it waits for returns,
\* and time passes.
CallFairness ==
    /\ \A w \in Workers : WF_vars(DeployOk(w) \/ DeployFail(w))
    /\ WF_vars(ProvisionFailed \/ ProvisionSucceeded)
    /\ WF_vars(PlanFail \/ \E k \in 0..(MaxWorkers + 1) : PlanOk(k))
    /\ WF_vars(DispatchDone \/ \E d \in Workers, ok \in BOOLEAN, reached \in BOOLEAN :
                                  Dispatch(d, ok, reached))
    /\ WF_vars(WaitComplete \/ WaitTimeout)
    /\ WF_vars(ReportFail \/ ReportOk)
    /\ WF_vars(Tick)

FairSpec == Spec /\ CallFairness

\* ================================================================ claims

Returned == opc = "returned"
Created == {w \in Workers : provPc[w] = "done"}

\* C1: after run_research has returned, with success or with failure,
\* WorkerHost.delete has been invoked exactly once for every worker whose
\* creation succeeded.
C1_DeleteOncePerCreatedWorker ==
    Returned => \A w \in Created : deletes[w] = 1

\* C2: if the creation of any worker failed, run_research fails and cleanup is
\* triggered for the workers of the session whose creation succeeded.
C2_ProvisionFailureTriggersCleanup ==
    (Returned /\ ProvisionErrors # {}) => (outcome.err # "" /\ cleanupSpawned)

C4_TimeoutStatus ==
    (Returned /\ outcome.err = "research failed: research timeout")
        => (sessionStatus = "timeout" /\ outcome.result.status = "timeout")

\* C5: a failed session returns a ResearchResult-shaped payload whose status is
\* failed, timeout or failed_report_generation.
C5_FailedSessionReturnsResult ==
    (Returned /\ outcome.err # "")
        => outcome.result.status \in {"failed", "timeout", "failed_report_generation"}

\* C6: terminal session states are sticky: once the status is completed,
\* failed, timeout or failed_report_generation no step changes it.
C6_TerminalSticky ==
    [][(sessionStatus \in TerminalStatuses) => (sessionStatus' = sessionStatus)]_vars

\* C7: every write to the session's status and to its workers map is made
\* while holding the session lock.
C7_WritesUnderLock == racyWrites = {}

\* ============================================== StdIOWebsetsClient

CallOutcomes == {"ok", "toolError", "transportError", "otherError"}

\* isTransportError: the error text contains "transport", "connection", "pipe"
\* or "EOF".
isTransportError(r) == r = "transportError"

\* Variant of AfterCallError: every transport error starts a recovery.
AfterCallErrorAlways(attempt, r) ==
    IF isTransportError(r) THEN "recover" ELSE "fail"

\* What Call() does with an error from CallTool: only a transport error of the
\* first attempt starts the recovery; any other error is returned.
AfterCallError(attempt, r) ==
    IF isTransportError(r) /\ attempt = 1 THEN "recover" ELSE "fail"

\* Call(), first critical section: session := c.session under c.mu.
CallStart(c) ==
    /\ cpc[c] = "idle"
    /\ cMu = 0
    /\ cLocal' = [cLocal EXCEPT ![c] = cSession]
    /\ cpc' = [cpc EXCEPT ![c] = IF cSession = 0 THEN "connect" ELSE "invoke"]
    /\ UNCHANGED <<opc, sessionStatus, active, count, drones, provPc,
                   hostCreated, deletes, nSub, dispSnap, dispIdx, instructed,
                   results, waitDeadline, startTime, outcome, monPc, colPc,
                   cleanPc, cleanSnap, cleanupSpawned, topicDeleted, clock,
                   racyWrites, queueVars, cSession, cStarted, cMu, nextSid,
                   closedSess, tries, reconnects, firstTransport, cResult, cErr,
                   elicitVars, pipeVars, regVars>>

\* Connect(): c.mu.Lock(). The mutex stays held until Connect returns. A
\* Connect made from the recovery path of Call() counts as a reconnect.
ConnectAcquire(c) ==
    /\ cpc[c] = "connect"
    /\ cMu = 0
    /\ cMu' = c
    /\ reconnects' = [reconnects EXCEPT ![c] = IF firstTransport[c] THEN @ + 1 ELSE @]
    /\ cpc' = [cpc EXCEPT ![c] = "connecting"]
    /\ UNCHANGED <<opc, sessionStatus, active, count, drones, provPc,
                   hostCreated, deletes, nSub, dispSnap, dispIdx, instructed,
                   results, waitDeadline, startTime, outcome, monPc, colPc,
                   cleanPc, cleanSnap, cleanupSpawned, topicDeleted, clock,
                   racyWrites, queueVars, cSession, cStarted, nextSid,
                   closedSess, cLocal, tries, firstTransport, cResult, cErr,
                   elicitVars, pipeVars, regVars>>

\* Variant of AlreadyConnected: Connect never takes its early return.
AlreadyConnectedNever(started) == FALSE

\* if c.started { return nil }
AlreadyConnected(started) == started

\* Connect(), body and deferred unlock. When c.started it returns nil and
\* spawns nothing. Otherwise the child is spawned and the MCP session set up
\* (ok), or the credential check or client.Connect fails (~ok). Back in Call(),
\* an error is returned as "failed to connect" / "reconnect failed".
ConnectFinish(c, ok) ==
    /\ cpc[c] = "connecting"
    /\ cMu = c
    /\ cMu' = 0
    /\ IF AlreadyConnected(cStarted)
       THEN /\ ok
            /\ cpc' = [cpc EXCEPT ![c] = "reread"]
            /\ UNCHANGED <<cSession, cStarted, nextSid, cResult>>
       ELSE IF ok
       THEN /\ nextSid < MaxSpawn
            /\ nextSid' = nextSid + 1
            /\ cSession' = nextSid + 1
            /\ cStarted' = TRUE
            /\ cpc' = [cpc EXCEPT ![c] = "reread"]
            /\ UNCHANGED cResult
       ELSE /\ cpc' = [cpc EXCEPT ![c] = "done"]
            /\ cResult' = [cResult EXCEPT ![c] =
                              IF firstTransport[c] THEN "reconnect failed"
                              ELSE "failed to connect"]
            /\ UNCHANGED <<cSession, cStarted, nextSid>>
    /\ UNCHANGED <<opc, sessionStatus, active, count, drones, provPc,
                   hostCreated, deletes, nSub, dispSnap, dispIdx, instructed,
                   results, waitDeadline, startTime, outcome, monPc, colPc,
                   cleanPc, cleanSnap, cleanupSpawned, topicDeleted, clock,
                   racyWrites, queueVars, closedSess, cLocal, tries, reconnects,
                   firstTransport, cErr, elicitVars, pipeVars, regVars>>

\* Call(), after Connect returned nil: session = c.session under c.mu.
Reread(c) ==
    /\ cpc[c] = "reread"
    /\ cMu = 0
    /\ cLocal' = [cLocal EXCEPT ![c] = cSession]
    /\ cpc' = [cpc EXCEPT ![c] = "invoke"]
    /\ UNCHANGED <<opc, sessionStatus, active, count, drones, provPc,
                   hostCreated, deletes, nSub, dispSnap, dispIdx, instructed,
                   results, waitDeadline, startTime, outcome, monPc, colPc,
                   cleanPc, cleanSnap, cleanupSpawned, topicDeleted, clock,
                   racyWrites, queueVars, cSession, cStarted, cMu, nextSid,
                   closedSess, tries, reconnects, firstTransport, cResult, cErr,
                   elicitVars, pipeVars, regVars>>

\* session.CallTool is issued, outside c.mu. With a nil session the call
\* dereferences a nil pointer.
InvokeStart(c) ==
    /\ cpc[c] = "invoke"
    /\ tries[c] < AttemptCap
    /\ tries' = [tries EXCEPT ![c] = @ + 1]
    /\ IF cLocal[c] = 0
       THEN /\ cpc' = [cpc EXCEPT ![c] = "done"]
            /\ cResult' = [cResult EXCEPT ![c] = "panic"]
       ELSE /\ cpc' = [cpc EXCEPT ![c] = "inflight"]
            /\ UNCHANGED cResult
    /\ UNCHANGED <<opc, sessionStatus, active, count, drones, provPc,
                   hostCreated, deletes, nSub, dispSnap, dispIdx, instructed,
                   results, waitDeadline, startTime, outcome, monPc, colPc,
                   cleanPc, cleanSnap, cleanupSpawned, topicDeleted, clock,
                   racyWrites, queueVars, cSession, cStarted, cMu, nextSid,
                   closedSess, cLocal, reconnects, firstTransport, cErr,
                   elicitVars, pipeVars, regVars>>

\* session.CallTool returns r; a closed session can only answer with an error.
\* A result is returned to the caller (a tool-level isError as "tool error"),
\* the first transport error starts the recovery, other errors are returned.
InvokeEnd(c, r) ==
    /\ cpc[c] = "inflight"
    /\ cLocal[c] \in closedSess => r \in {"transportError", "otherError"}
    /\ IF r \in {"ok", "toolError"}
       THEN /\ cpc' = [cpc EXCEPT ![c] = "done"]
            /\ cResult' = [cResult EXCEPT ![c] = IF r = "ok" THEN "ok" ELSE "tool error"]
            /\ UNCHANGED <<firstTransport, cErr>>
       ELSE IF AfterCallError(tries[c], r) = "recover"
       THEN /\ cpc' = [cpc EXCEPT ![c] = "recover"]
            /\ firstTransport' = [firstTransport EXCEPT ![c] = TRUE]
            /\ UNCHANGED <<cResult, cErr>>
       ELSE /\ cpc' = [cpc EXCEPT ![c] = "done"]
            /\ cResult' = [cResult EXCEPT ![c] =
                              IF firstTransport[c] THEN "tools/call failed after reconnect"
                              ELSE "tools/call failed"]
            /\ cErr' = [cErr EXCEPT ![c] = r]
            /\ UNCHANGED firstTransport
    /\ UNCHANGED <<opc, sessionStatus, active, count, drones, provPc,
                   hostCreated, deletes, nSub, dispSnap, dispIdx, instructed,
                   results, waitDeadline, startTime, outcome, monPc, colPc,
                   cleanPc, cleanSnap, cleanupSpawned, topicDeleted, clock,
                   racyWrites, queueVars, cSession, cStarted, cMu, nextSid,
                   closedSess, cLocal, tries, reconnects, elicitVars, pipeVars,
                   regVars>>

\* Recovery critical section: started = false, the current c.session (whoever
\* created it) is closed and forgotten; then Connect is called.
RecoveryReset(c) ==
    /\ cpc[c] = "recover"
    /\ cMu = 0
    /\ cStarted' = FALSE
    /\ closedSess' = IF cSession # 0 THEN closedSess \cup {cSession} ELSE closedSess
    /\ cSession' = 0
    /\ cpc' = [cpc EXCEPT ![c] = "connect"]
    /\ UNCHANGED <<opc, sessionStatus, active, count, drones, provPc,
                   hostCreated, deletes, nSub, dispSnap, dispIdx, instructed,
                   results, waitDeadline, startTime, outcome, monPc, colPc,
                   cleanPc, cleanSnap, cleanupSpawned, topicDeleted, clock,
                   racyWrites, queueVars, cMu, nextSid, cLocal, tries,
                   reconnects, firstTransport, cResult, cErr, elicitVars,
                   pipeVars, regVars>>

\* Close(): under c.mu the session is closed and the client marked not started.
Close ==
    /\ cMu = 0
    /\ cSession # 0
    /\ closedSess' = closedSess \cup {cSession}
    /\ cSession' = 0
    /\ cStarted' = FALSE
    /\ UNCHANGED <<opc, sessionStatus, active, count, drones, provPc,
                   hostCreated, deletes, nSub, dispSnap, dispIdx, instructed,
                   results, waitDeadline, startTime, outcome, monPc, colPc,
                   cleanPc, cleanSnap, cleanupSpawned, topicDeleted, clock,
                   racyWrites, queueVars, cMu, nextSid, cpc, cLocal, tries,
                   reconnects, firstTransport, cResult, cErr, elicitVars,
                   pipeVars, regVars>>

NextClient ==
    \/ \E c \in Callers : CallStart(c)
    \/ \E c \in Callers : ConnectAcquire(c)
    \/ \E c \in Callers, ok \in BOOLEAN : ConnectFinish(c, ok)
    \/ \E c \in Callers : Reread(c)
    \/ \E c \in Callers : InvokeStart(c)
    \/ \E c \in Callers, r \in CallOutcomes : InvokeEnd(c, r)
    \/ \E c \in Callers : RecoveryReset(c)
    \/ Close

SpecClient == Init /\ [][NextClient]_vars

\* ------------------------------------------------------ claims on the client

CallDone(c) == cpc[c] = "done"

InFlight == {c \in Callers : cpc[c] = "inflight"}

\* C9: all calls through one client are serialised by its mutex: never two
\* tool invocations in flight on the child, and no connect or close while a
\* call is in flight.
C9_CallsSerialised ==
    /\ Cardinality(InFlight) <= 1
    /\ (cMu # 0) => (InFlight = {})

\* ------------------------------------------------------ claims on the queue

RECURSIVE Occurrences(_, _)
Occurrences(seq, v) ==
    IF seq = <<>> THEN 0
    ELSE (IF Head(seq) = v THEN 1 ELSE 0) + Occurrences(Tail(seq), v)

ResultPayloads == Payloads \ {BadPayload}

Backlogs ==
    {<<0, 0>>, <<ResultChanCap - 1, 0>>, <<ResultChanCap, 0>>, <<0, ErrorChanCap>>}

\* ResearchQueue.Subscribe: topic and subscription are looked up or created
\* (~ok: one of those calls failed and the error is returned); then
\* receiveMessages is started, whether or not one is already running.
Subscribe(ok) ==
    /\ consumers < MaxSubscribe
    /\ subscribed' = (subscribed \/ ok)
    /\ consumers' = IF ok THEN consumers + 1 ELSE consumers
    /\ UNCHANGED <<opc, sessionStatus, active, count, drones, provPc,
                   hostCreated, deletes, nSub, dispSnap, dispIdx, instructed,
                   results, waitDeadline, startTime, outcome, monPc, colPc,
                   cleanPc, cleanSnap, cleanupSpawned, topicDeleted, clock,
                   racyWrites, bus, published, resultChan, errorChan, qResults,
                   qClosed, backlog, acked, nacked, dropped, panicked,
                   clientVars, elicitVars, pipeVars, regVars>>

\* The bus accepts a message published on the session topic.
BusPublish(m) ==
    /\ subscribed
    /\ PublishedCount < backlog + MaxPublish
    /\ bus' = [bus EXCEPT ![m] = @ + 1]
    /\ published' = [published EXCEPT ![m] = @ + 1]
    /\ UNCHANGED <<opc, sessionStatus, active, count, drones, provPc,
                   hostCreated, deletes, nSub, dispSnap, dispIdx, instructed,
                   results, waitDeadline, startTime, outcome, monPc, colPc,
                   cleanPc, cleanSnap, cleanupSpawned, topicDeleted, clock,
                   racyWrites, resultChan, errorChan, qResults, qClosed,
                   subscribed, consumers, backlog, acked, nacked, dropped,
                   panicked, clientVars, elicitVars, pipeVars, regVars>>

\* A reader takes one result from ResultChannel().
ReceiveResult ==
    /\ resultChan # <<>>
    /\ resultChan' = Tail(resultChan)
    /\ UNCHANGED <<opc, sessionStatus, active, count, drones, provPc,
                   hostCreated, deletes, nSub, dispSnap, dispIdx, instructed,
                   results, waitDeadline, startTime, outcome, monPc, colPc,
                   cleanPc, cleanSnap, cleanupSpawned, topicDeleted, clock,
                   racyWrites, bus, published, errorChan, qResults, qClosed,
                   subscribed, consumers, backlog, acked, nacked, dropped,
                   panicked, clientVars, elicitVars, pipeVars, regVars>>

\* A reader takes one error from ErrorChannel().
ReceiveError ==
    /\ errorChan > 0
    /\ errorChan' = errorChan - 1
    /\ UNCHANGED <<opc, sessionStatus, active, count, drones, provPc,
                   hostCreated, deletes, nSub, dispSnap, dispIdx, instructed,
                   results, waitDeadline, startTime, outcome, monPc, colPc,
                   cleanPc, cleanSnap, cleanupSpawned, topicDeleted, clock,
                   racyWrites, bus, published, resultChan, qResults, qClosed,
                   subscribed, consumers, backlog, acked, nacked, dropped,
                   panicked, clientVars, elicitVars, pipeVars, regVars>>

\* ResearchQueue.Close: both channels are closed.
CloseQueue ==
    /\ ~qClosed
    /\ qClosed' = TRUE
    /\ UNCHANGED <<opc, sessionStatus, active, count, drones, provPc,
                   hostCreated, deletes, nSub, dispSnap, dispIdx, instructed,
                   results, waitDeadline, startTime, outcome, monPc, colPc,
                   cleanPc, cleanSnap, cleanupSpawned, topicDeleted, clock,
                   racyWrites, bus, published, resultChan, errorChan, qResults,
                   subscribed, consumers, backlog, acked, nacked, dropped,
                   panicked, clientVars, elicitVars, pipeVars, regVars>>

InitQueue ==
    /\ InitOrchestrator
    /\ \E b \in Backlogs : QueueWithBacklog(b[1], b[2])
    /\ InitClient
    /\ NewElicitationManager
    /\ InitPipeline
    /\ InitRegistry

NextQueue ==
    \/ \E ok \in BOOLEAN : Subscribe(ok)
    \/ \E m \in Payloads : BusPublish(m)
    \/ \E m \in Payloads : HandleMessage(m)
    \/ ReceiveResult
    \/ ReceiveError
    \/ CloseQueue

SpecQueue == InitQueue /\ [][NextQueue]_vars

\* ------------------------------------------------------ more claims on the queue

\* Messages the consumer has taken from the bus, by payload.
Handled(m) == published[m] - bus[m]

\* C11: Subscribe is idempotent: a second call on an already subscribed queue
\* starts no second consumer, so that each bus message is appended to
\* q.results once and forwarded once.
C11_SubscribeIdempotent ==
    /\ consumers <= 1
    /\ ~qClosed => qResults = SumOver([m \in Payloads |-> Handled(m)], ResultPayloads)

\* C12: every message the consumer receives is nacked, with an error forwarded,
\* when it does not decode, and acked otherwise: never both, never neither.
\* In counts: the nacks are the undecodable messages taken from the bus, the
\* acks are the decodable ones.
C12_AckXorNack ==
    /\ nacked = Handled(BadPayload)
    /\ acked = SumOver([m \in Payloads |-> Handled(m)], ResultPayloads)

\* C13: with the result channel full the consumer does not block: it drops
\* the result instead of sending it, still acks the message, and stays ready
\* for the next message.
C13_FullChannelDrops ==
    /\ [][\A m \in ResultPayloads :
            (subscribed /\ ~qClosed /\ Len(resultChan) >= ResultChanCap
                /\ bus'[m] = bus[m] - 1)
            => (/\ resultChan' = resultChan
                /\ dropped' = dropped + 1
                /\ acked' = acked + 1
                /\ nacked' = nacked
                /\ qResults' = qResults + 1
                /\ panicked' = panicked)]_vars
    /\ [](\A m \in ResultPayloads :
            (subscribed /\ ~qClosed /\ Len(resultChan) >= ResultChanCap /\ bus[m] > 0)
            => ENABLED HandleMessage(m))

\* C13 witness: two results arrived while 100 were unread; both were dropped
\* and acked, the second after the first.
C13_Witness ==
    /\ ~qClosed
    /\ Len(resultChan) = ResultChanCap
    /\ dropped = 2
    /\ acked = backlog + 2
    /\ qResults = backlog + 2

\* ============================================== ElicitationManager
\* The request handlers of the server and the manager they share. Every
\* method of the manager runs under em.mu, so each is one step; a handler
\* that calls several of them can be overtaken between two calls.

Known(sid) == sid \in SessionIds /\ eState[sid] # "absent"

\* The switch of ProcessAnswers: the state that follows st.
NextStateSkipping(st) ==
    CASE st = "initial" -> "advanced"
      [] st = "workflow" -> "advanced"
      [] st = "advanced" -> "complete"
      [] OTHER -> st

NextState(st) ==
    CASE st = "initial" -> "workflow"
      [] st = "workflow" -> "advanced"
      [] st = "advanced" -> "complete"
      [] OTHER -> st

\* The question set ProcessAnswers returns when it leaves state st.
NextQuestions(st) ==
    CASE st = "initial" -> "workflow"
      [] st = "workflow" -> "advanced"
      [] OTHER -> "nil"

\* Variant of StoreAnswers: one Answers map shared by all sessions.
StoreAnswersShared(all, sid, a) ==
    [i \in SessionIds |->
        [k \in AnswerKeys |-> IF a[k] # Unset THEN a[k] ELSE all[i][k]]]

\* for k, v := range answers { session.Answers[k] = v }
StoreAnswers(all, sid, a) ==
    [all EXCEPT ![sid] = [k \in AnswerKeys |-> IF a[k] # Unset THEN a[k] ELSE @[k]]]

\* getStringAnswer: the value when it is a string, else the default.
getStringAnswer(answers, key, defaultValue) ==
    IF answers[key].type = "string" THEN answers[key].val ELSE defaultValue

\* int(val) of a float64 given in tenths: the fraction is cut off, towards zero.
IntOfFloat(tenths) ==
    IF tenths >= 0 THEN tenths \div 10 ELSE -((-tenths) \div 10)

\* Variant of getIntAnswer: only the float64 case is looked at.
getIntAnswerFloatOnly(answers, key, defaultValue) ==
    IF answers[key].type = "float64" THEN IntOfFloat(answers[key].val)
    ELSE defaultValue

\* getIntAnswer: int(val) for a float64, val for an int, else the default.
getIntAnswer(answers, key, defaultValue) ==
    IF answers[key].type = "float64" THEN IntOfFloat(answers[key].val)
    ELSE IF answers[key].type = "int" THEN answers[key].val
    ELSE defaultValue

\* The ResearchConfig GetResearchConfig builds from the answers of a session.
BuildConfig(sid, answers) ==
    [nil |-> FALSE, sid |-> sid,
     topic |-> getStringAnswer(answers, "research_topic", 0),
     count |-> getIntAnswer(answers, "researcher_count", DefaultCount),
     timeout |-> getIntAnswer(answers, "timeout_minutes", DefaultTimeout)]

\* Variant of GetResearchConfig: the state of the session is not looked at.
GetResearchConfigAnyState(sid) ==
    IF ~Known(sid) THEN NilConfig
    ELSE BuildConfig(sid, eAnswers[sid])

\* GetResearchConfig: nil unless the session exists and is complete.
GetResearchConfig(sid) ==
    IF ~Known(sid) \/ eState[sid] # "complete" THEN NilConfig
    ELSE BuildConfig(sid, eAnswers[sid])

\* handleElicitation, first step: GetState(input.SessionID) finds the
\* session; the handler goes on to ProcessAnswers.
handleElicitation(h, sid, a) ==
    /\ rq[h].pc = "idle"
    /\ Known(sid)
    /\ rq' = [rq EXCEPT ![h] = [pc |-> "process", sid |-> sid, answers |-> a]]
    /\ UNCHANGED <<opc, sessionStatus, active, count, drones, provPc,
                   hostCreated, deletes, nSub, dispSnap, dispIdx, instructed,
                   results, waitDeadline, startTime, outcome, monPc, colPc,
                   cleanPc, cleanSnap, cleanupSpawned, topicDeleted, clock,
                   racyWrites, queueVars, clientVars, eState, eAnswers, eUpdated,
                   eCalls, eNextId, evictPending, eTime, eResp, pipeVars, regVars>>

\* handleElicitation, state == nil (sid 0 is the empty session id of a first
\* call): CreateSession stores a fresh session in state initial and starts a
\* cleanupOldSessions goroutine; the response carries the new id and the
\* initial questions. The handler does not look at the sessions map between
\* GetState and CreateSession, nor at the request's answers: one step.
CreateSession(h, sid) ==
    /\ rq[h].pc = "idle"
    /\ ~Known(sid)
    /\ eNextId < MaxSessions
    /\ eNextId' = eNextId + 1
    /\ eState' = [eState EXCEPT ![eNextId + 1] = "initial"]
    /\ eAnswers' = [eAnswers EXCEPT ![eNextId + 1] = NoAnswers]
    /\ eUpdated' = [eUpdated EXCEPT ![eNextId + 1] = eTime]
    /\ eCalls' = [eCalls EXCEPT ![eNextId + 1] = 0]
    /\ evictPending' = evictPending + 1
    /\ eResp' = [type |-> "elicitation", sid |-> eNextId + 1, reqSid |-> sid,
                 found |-> FALSE, questions |-> "initial", config |-> NilConfig]
    /\ UNCHANGED <<opc, sessionStatus, active, count, drones, provPc,
                   hostCreated, deletes, nSub, dispSnap, dispIdx, instructed,
                   results, waitDeadline, startTime, outcome, monPc, colPc,
                   cleanPc, cleanSnap, cleanupSpawned, topicDeleted, clock,
                   racyWrites, queueVars, clientVars, eTime, rq, pipeVars,
                   regVars>>

\* handleElicitation, state != nil: ProcessAnswers. A session that has gone
\* meanwhile gives (nil, false). Otherwise the answers are stored, LastUpdated
\* is set and the switch advances the state; (questions, false) is answered
\* at once, (nil, true) leads on to GetResearchConfig.
ProcessAnswers(h) ==
    /\ rq[h].pc = "process"
    /\ IF ~Known(rq[h].sid)
       THEN /\ rq' = [rq EXCEPT ![h] = NoRequest]
            /\ eResp' = [type |-> "elicitation", sid |-> rq[h].sid, reqSid |-> rq[h].sid,
                         found |-> TRUE, questions |-> "nil", config |-> NilConfig]
            /\ UNCHANGED <<eState, eAnswers, eUpdated, eCalls>>
       ELSE /\ eAnswers' = StoreAnswers(eAnswers, rq[h].sid, rq[h].answers)
            /\ eUpdated' = [eUpdated EXCEPT ![rq[h].sid] = eTime]
            /\ eCalls' = [eCalls EXCEPT ![rq[h].sid] = Min(@ + 1, CallCap)]
            /\ eState' = [eState EXCEPT ![rq[h].sid] = NextState(@)]
            /\ IF eState[rq[h].sid] \in {"advanced", "complete"}
               THEN /\ rq' = [rq EXCEPT ![h] = [pc |-> "config", sid |-> rq[h].sid,
                                                answers |-> NoAnswers]]
                    /\ UNCHANGED eResp
               ELSE /\ rq' = [rq EXCEPT ![h] = NoRequest]
                    /\ eResp' = [type |-> "elicitation", sid |-> rq[h].sid,
                                 reqSid |-> rq[h].sid, found |-> TRUE,
                                 questions |-> NextQuestions(eState[rq[h].sid]),
                                 config |-> NilConfig]
    /\ UNCHANGED <<opc, sessionStatus, active, count, drones, provPc,
                   hostCreated, deletes, nSub, dispSnap, dispIdx, instructed,
                   results, waitDeadline, startTime, outcome, monPc, colPc,
                   cleanPc, cleanSnap, cleanupSpawned, topicDeleted, clock,
                   racyWrites, queueVars, clientVars, eNextId, evictPending,
                   eTime, pipeVars, regVars>>

\* handleElicitation, complete: the "ready" response with GetResearchConfig.
ElicitationReady(h) ==
    /\ rq[h].pc = "config"
    /\ rq' = [rq EXCEPT ![h] = NoRequest]
    /\ eResp' = [type |-> "ready", sid |-> rq[h].sid, reqSid |-> rq[h].sid,
                 found |-> TRUE, questions |-> "nil",
                 config |-> GetResearchConfig(rq[h].sid)]
    /\ UNCHANGED <<opc, sessionStatus, active, count, drones, provPc,
                   hostCreated, deletes, nSub, dispSnap, dispIdx, instructed,
                   results, waitDeadline, startTime, outcome, monPc, colPc,
                   cleanPc, cleanSnap, cleanupSpawned, topicDeleted, clock,
                   racyWrites, queueVars, clientVars, eState, eAnswers, eUpdated,
                   eCalls, eNextId, evictPending, eTime, pipeVars, regVars>>

\* Variant of AfterConfigLookup: the orchestrator is called whatever the
\* lookup gave.
AfterConfigLookupAlways(config) == "orchestrate"

\* if config == nil { return nil, fmt.Errorf(...) }; otherwise
\* orch.OrchestrateResearch(ctx, config) is called.
AfterConfigLookup(config) == IF config.nil THEN "error" ELSE "orchestrate"

\* handleOrchestrateResearch, up to the call of the orchestrator: the
\* configuration is looked up; nil is answered with an error.
handleOrchestrateResearch(h, sid) ==
    /\ rq[h].pc = "idle"
    /\ eResp' = [type |-> AfterConfigLookup(GetResearchConfig(sid)),
                 sid |-> sid, reqSid |-> sid, found |-> Known(sid),
                 questions |-> "nil", config |-> GetResearchConfig(sid)]
    /\ UNCHANGED <<opc, sessionStatus, active, count, drones, provPc,
                   hostCreated, deletes, nSub, dispSnap, dispIdx, instructed,
                   results, waitDeadline, startTime, outcome, monPc, colPc,
                   cleanPc, cleanSnap, cleanupSpawned, topicDeleted, clock,
                   racyWrites, queueVars, clientVars, eState, eAnswers, eUpdated,
                   eCalls, eNextId, evictPending, eTime, rq, pipeVars, regVars>>

\* Variant of Expired: a session last updated exactly at the cutoff counts
\* as old too.
ExpiredAtCutoff(updated, now) == updated <= now - Hour

\* session.LastUpdated.Before(cutoff), cutoff := time.Now().Add(-1 * time.Hour).
Expired(updated, now) == updated < now - Hour

\* A cleanupOldSessions goroutine runs: every session whose LastUpdated is
\* before now - 1h is deleted.
cleanupOldSessions ==
    /\ evictPending > 0
    /\ evictPending' = evictPending - 1
    /\ eState' = [i \in SessionIds |->
                    IF Expired(eUpdated[i], eTime) THEN "absent" ELSE eState[i]]
    /\ eAnswers' = [i \in SessionIds |->
                    IF Expired(eUpdated[i], eTime) THEN NoAnswers ELSE eAnswers[i]]
    /\ eUpdated' = [i \in SessionIds |->
                    IF Expired(eUpdated[i], eTime) THEN 0 ELSE eUpdated[i]]
    /\ eCalls' = [i \in SessionIds |->
                    IF Expired(eUpdated[i], eTime) THEN 0 ELSE eCalls[i]]
    /\ UNCHANGED <<opc, sessionStatus, active, count, drones, provPc,
                   hostCreated, deletes, nSub, dispSnap, dispIdx, instructed,
                   results, waitDeadline, startTime, outcome, monPc, colPc,
                   cleanPc, cleanSnap, cleanupSpawned, topicDeleted, clock,
                   racyWrites, queueVars, clientVars, eNextId, eTime, rq, eResp,
                   pipeVars, regVars>>

\* Time passes for the elicitation manager, one hour at a time: a session
\* last touched one reading earlier is exactly at the cutoff, one touched two
\* readings earlier is older than the eviction age.
ElicitationTick ==
    /\ eTime < MaxHours
    /\ eTime' = eTime + Hour
    /\ UNCHANGED <<opc, sessionStatus, active, count, drones, provPc,
                   hostCreated, deletes, nSub, dispSnap, dispIdx, instructed,
                   results, waitDeadline, startTime, outcome, monPc, colPc,
                   cleanPc, cleanSnap, cleanupSpawned, topicDeleted, clock,
                   racyWrites, queueVars, clientVars, eState, eAnswers, eUpdated,
                   eCalls, eNextId, evictPending, rq, eResp, pipeVars, regVars>>

NextElicitation ==
    \/ \E h \in Handlers, sid \in 0..MaxSessions, a \in Submissions :
          handleElicitation(h, sid, a)
    \/ \E h \in Handlers, sid \in 0..MaxSessions : CreateSession(h, sid)
    \/ \E h \in Handlers : ProcessAnswers(h)
    \/ \E h \in Handlers : ElicitationReady(h)
    \/ \E h \in Handlers, sid \in 0..MaxSessions : handleOrchestrateResearch(h, sid)
    \/ cleanupOldSessions
    \/ ElicitationTick

SpecElicitation == Init /\ [][NextElicitation]_vars

\* ------------------------------------------------------ claims on elicitation

Rank(st) ==
    CASE st = "initial" -> 0
      [] st = "workflow" -> 1
      [] st = "advanced" -> 2
      [] st = "complete" -> 3

\* The step in which handler h returns from ProcessAnswers.
ProcessAnswersStep(h) == rq[h].pc = "process" /\ rq'[h].pc # "process"

\* C14: a newly created elicitation session reaches complete after exactly
\* three ProcessAnswers calls, each call advancing the state by exactly one
\* step: after k calls the session is k steps from initial, for k up to 3.
C14_ThreeCallsToComplete ==
    \A s \in SessionIds :
        Known(s) => Rank(eState[s]) = Min(eCalls[s], 3)

\* C14 witness: a session is complete after exactly three calls.
C14_Witness ==
    \E s \in SessionIds : eState[s] = "complete" /\ eCalls[s] = 3

\* C15: GetResearchConfig returns a non-nil configuration only for a session
\* in state complete; for a session in state initial, workflow or advanced
\* and for an unknown session it returns nil. Stated on every response that
\* carries its result, against the state it was computed from.
C15_ConfigOnlyWhenComplete ==
    [][(eResp' # eResp /\ eResp'.type \in {"ready", "orchestrate", "error"})
          => (~eResp'.config.nil <=> (Known(eResp'.sid) /\ eState[eResp'.sid] = "complete"))
      ]_vars

\* C15 witness: a lookup for a session that is still in state advanced was
\* answered with an error, the configuration being nil.
C15_Witness ==
    /\ eResp.type = "error"
    /\ eResp.config.nil
    /\ Known(eResp.sid)
    /\ eState[eResp.sid] = "advanced"

\* C16: a follow-up elicitation call carrying a session id the manager does
\* not know (never created, or evicted) returns a "no such session" error.
C16_UnknownSessionIsError ==
    (/\ eResp.type \in {"elicitation", "ready"}
     /\ eResp.reqSid # 0
     /\ ~eResp.found \/ (eResp.type = "elicitation" /\ eResp.questions = "nil"))
        => eResp.type = "error"

\* C17: submitting more answers to a session that is already complete is a
\* no-op: stored answers and configuration are unchanged and the call reports
\* the completed state.
C17_AnswersAfterCompleteNoOp ==
    [][\A h \in Handlers :
          (ProcessAnswersStep(h) /\ Known(rq[h].sid) /\ eState[rq[h].sid] = "complete")
          => (/\ eAnswers'[rq[h].sid] = eAnswers[rq[h].sid]
              /\ eState'[rq[h].sid] = "complete"
              /\ rq'[h].pc = "config")]_vars

\* C18: two elicitation sessions never interfere: answers submitted to one
\* session change neither the state, nor the stored answers, nor the
\* configuration of any other session, under every interleaving of handlers.
C18_SessionsIsolated ==
    [][\A h \in Handlers : \A t \in SessionIds :
          (ProcessAnswersStep(h) /\ t # rq[h].sid)
          => (/\ eState'[t] = eState[t]
              /\ eAnswers'[t] = eAnswers[t]
              /\ eUpdated'[t] = eUpdated[t])]_vars

\* C18 witness: two sessions have both taken answers, from handlers running
\* at the same time, and hold different answers.
C18_Witness ==
    /\ \A s \in SessionIds : Known(s) /\ eCalls[s] >= 1
    /\ eAnswers[1] # eAnswers[2]
    /\ \A h \in Handlers : rq[h].pc = "process"
    /\ rq[1].sid # rq[2].sid

\* ------------------------------------------------------ claims on dispatch

\* The dispatch loop has ended (collectResults is started right after it).
Dispatched == colPc # "off"

\* C19: when the planner returns k sub-queries for N > k researchers, exactly
\* k workers are dispatched and the session completes as soon as k results
\* have been collected: the wait never ends in a timeout with k results in.
C19_FewerSubQueries ==
    /\ [](Dispatched => dispIdx = nSub)
    /\ [][(opc = "wait" /\ opc' = "returned" /\ nSub >= 1 /\ nSub < count)
            => Len(results) < nSub]_vars

\* C20: a dispatch error marks the worker failed_to_instruct and does not
\* abort the session: the loop goes on, every remaining worker is dispatched
\* and the session reaches the wait phase.
C20_DispatchErrorDoesNotAbort ==
    /\ [][\A d \in Workers :
            (opc = "dispatch" /\ d \in dispSnap /\ d \notin dispSnap')
            => (/\ drones'[d] \in {"running", "failed_to_instruct"}
                /\ (d \notin instructed') => (drones'[d] = "failed_to_instruct")
                /\ opc' = "dispatch"
                /\ sessionStatus' = sessionStatus
                /\ outcome' = outcome
                /\ dispIdx' = dispIdx + 1)]_vars
    /\ [](opc \in {"wait", "report"} => dispIdx = nSub)
    /\ (opc = "dispatch") ~> (opc = "wait")

\* C20 witness: in the wait phase, one worker is marked failed_to_instruct
\* and another was dispatched successfully.
C20_Witness ==
    /\ opc = "wait"
    /\ \E d1, d2 \in Workers :
          /\ drones[d1] = "failed_to_instruct"
          /\ d1 \notin instructed
          /\ drones[d2] = "running"
          /\ d2 \in instructed

\* ------------------------------------------------------ claims on collection

\* C21: only workers with successful dispatch can complete: a worker marked
\* failed_to_instruct is never later recorded with status completed.
C21_FailedToInstructNeverCompletes ==
    [][\A d \in Workers :
          (drones[d] = "failed_to_instruct") => (drones'[d] # "completed")]_vars

\* C22: if a worker publishes the same result more than once, every copy is
\* appended to session.Results, and every copy counts toward the result count
\* that the progress line shows and the completion condition compares: each
\* result the collector takes from the channel is appended, whether or not an
\* equal one was collected before, and the wait ends in completion exactly on
\* the length of session.Results.
C22_DuplicatesCounted ==
    /\ [][(colPc = "running" /\ resultChan # <<>> /\ resultChan' = Tail(resultChan))
            => (results' = Append(results, Head(resultChan)))]_vars
    /\ [][(opc = "wait" /\ opc' = "report") => (Len(results) >= count)]_vars
    /\ []((opc = "wait" /\ Len(results) >= count) => ENABLED WaitComplete)

\* C22 witness: one worker published the same result twice; both copies were
\* collected and together met the completion condition of a session of two.
C22_Witness ==
    /\ opc = "report"
    /\ count = 2
    /\ Len(results) = 2
    /\ results[1] = results[2]
    /\ results[1].drone \in Workers
    /\ published[results[1]] = 2

\* The call has returned the timeout error of waitForCompletion.
TimedOut == opc = "returned" /\ outcome.err = "research failed: research timeout"

\* C23: once a session has timed out, results still in flight are ignored:
\* no result arriving after the timeout is appended to session.Results.
C23_NoResultsAfterTimeout ==
    [][TimedOut => (results' = results)]_vars

\* ------------------------------------------------------ claims on cleanup

\* Fairness of the cleanupSession goroutine: once started it runs to its end,
\* every WorkerHost and bus call it makes returns.
CleanupFairness ==
    /\ WF_vars(CleanupStart)
    /\ WF_vars(\E d \in Workers, ok \in BOOLEAN : CleanupDelete(d, ok))
    /\ WF_vars(\E ok \in BOOLEAN : CleanupTopic(ok))
    /\ WF_vars(CleanupClose)
    /\ WF_vars(CleanupRemove)

FairCleanupSpec == FairSpec /\ CleanupFairness

\* The call has returned on a path that got past provisioning.
ReturnedPastProvisioning == Returned /\ ProvisionErrors = {}

\* C24: on every path that got past provisioning, failure and timeout paths
\* included, cleanup deletes the session's topic, closes the result queue and
\* removes the session from the live-sessions map: no finished session stays
\* in the map.
C24_CleanupOnEveryPath ==
    ReturnedPastProvisioning ~> (cleanPc = "done" /\ qClosed /\ ~active)

\* A delete call of cleanupSession returns in this step: deleteDroneService
\* for drone d, or topic.Delete.
DeleteReturns(d) == cleanPc = "deleting" /\ deletes'[d] = deletes[d] + 1
TopicDeleteReturns == cleanPc = "deleting" /\ cleanSnap = {} /\ cleanPc' # "deleting"

\* C25: cleanup is best-effort: a failure to delete one worker or the topic is
\* logged and never re-raised (the value the call returned and the session
\* status stay as they are), and it does not stop cleanup: every drone of the
\* session gets its delete attempt before the topic is deleted, and a started
\* cleanup always goes on to close the queue and to remove the session from
\* the live-sessions map.
C25_CleanupBestEffort ==
    /\ [][\A d \in Workers :
            DeleteReturns(d) => (/\ cleanPc' = "deleting"
                                 /\ outcome' = outcome
                                 /\ sessionStatus' = sessionStatus)]_vars
    /\ [][TopicDeleteReturns => (/\ cleanPc' = "close"
                                 /\ outcome' = outcome
                                 /\ sessionStatus' = sessionStatus)]_vars
    /\ [](cleanPc \in {"close", "remove", "done"}
            => \A d \in DroneSet : deletes[d] = 1)
    /\ (cleanPc = "start") ~> (cleanPc = "done" /\ qClosed /\ ~active)

\* C25 witness: cleanup ran to its end although the delete of one worker and
\* the delete of the topic failed; the other worker was deleted, the queue is
\* closed and the session is out of the map.
C25_Witness ==
    /\ cleanPc = "done"
    /\ qClosed
    /\ ~active
    /\ ~topicDeleted
    /\ \E d1, d2 \in DroneSet :
          /\ deletes[d1] = 1 /\ d1 \in hostCreated
          /\ deletes[d2] = 1 /\ d2 \notin hostCreated

\* ------------------------------------------------------ more claims on the client

\* Child processes spawned and not closed since.
LiveSessions == (1..nextSid) \ closedSess

\* The step in which caller c returns from Connect.
ConnectReturns(c) == cpc[c] = "connecting" /\ cpc'[c] # "connecting"

\* C26: connect is idempotent and serialised: a connect on an already
\* connected client spawns nothing and leaves the session alone; a child is
\* spawned only by a connect that holds the mutex and found the client not
\* started, one at a time; so under every interleaving of connects the client
\* has at most one live child and MCP session, the one it owns.
C26_ConnectIdempotent ==
    /\ [](LiveSessions \subseteq {cSession})
    /\ [](cStarted <=> cSession # 0)
    /\ [][\A c \in Callers :
            (ConnectReturns(c) /\ cStarted)
            => (nextSid' = nextSid /\ cSession' = cSession /\ cStarted')]_vars
    /\ [][(nextSid' # nextSid)
            => (/\ cMu # 0 /\ ~cStarted /\ cSession = 0
                /\ nextSid' = nextSid + 1 /\ cSession' = nextSid')]_vars

\* C26 witness: two callers found no session and both called Connect; both
\* have returned from it, and one child was spawned.
C26_Witness ==
    /\ nextSid = 1
    /\ closedSess = {}
    /\ \A c \in Callers : cpc[c] = "reread" /\ cLocal[c] = 0

\* The step in which Call() of caller c returns a CallTool error of the
\* transport class.
ReturnsTransportError(c) ==
    /\ cpc[c] = "inflight"
    /\ cpc'[c] = "done"
    /\ isTransportError(cErr'[c])

\* C27: the client is disconnected after every transport error: whenever a
\* call returns a transport-class error the client is marked not started and
\* the broken session is dropped, so that the next call reconnects.
C27_DisconnectedAfterTransportError ==
    [][\A c \in Callers :
          ReturnsTransportError(c) => (~cStarted' /\ cSession' # cLocal[c])]_vars

\* ============================================== websets pipeline
\* RunWebsetsPipeline drives WebsetsOperations through create, poll and list,
\* then publishes the listed items on the bus. The websets client is seen
\* through its interface: each Call returns a text or an error. The clock
\* counts ticker periods of WaitForWebsetCompletion; the context of the call
\* stays live.

WebsetIds == 1..MaxWebsets
\* The statuses get_webset_status may report; "archived" stands for every
\* value the switch does not name.
WebsetStatuses == {"pending", "processing", "completed", "failed", "archived"}
\* What one poll can give: a Call error, a text that is not JSON, a JSON
\* object without a string "status", or a status.
PollResponses == {"callError", "unparsable", "noStatus"} \cup WebsetStatuses
CreateResponses == {"ok", "callError", "unparsable", "noResourceId"}
ListResponses == {"ok", "noItems", "callError", "unparsable"}
TopicResponses == {"exists", "created", "existsError", "createError"}

\* return nil, fmt.Errorf(...)
PipelineError(err) == [status |-> "nil", itemCount |-> 0, err |-> err]

\* The errors of CreateWebset and of ListContentItems.
CreateError(r) ==
    CASE r = "callError" -> <<"create webset failed", "call error">>
      [] r = "unparsable" -> <<"failed to parse create response", "json error">>
      [] r = "noResourceId" -> <<"no resourceId in create response">>

ListError(r) ==
    CASE r = "callError" -> <<"list content items failed", "call error">>
      [] r = "unparsable" -> <<"failed to parse list response", "json error">>

\* Variant of AfterStatus: a status the switch does not name ends the wait
\* like failed.
AfterStatusUnknownFails(state) ==
    CASE state = "completed" -> "success"
      [] state = "failed" -> "failed"
      [] state \in {"processing", "pending"} -> "continue"
      [] OTHER -> "failed"

\* The switch of WaitForWebsetCompletion over the polled status.
AfterStatus(state) ==
    CASE state = "completed" -> "success"
      [] state = "failed" -> "failed"
      [] OTHER -> "continue"

\* Variant of AfterWait: the error of the wait is dropped.
AfterWaitIgnored(err) == "list"

\* RunWebsetsPipeline after WaitForWebsetCompletion: on to the listing, or
\* return with the error.
AfterWait(err) == IF err = NoError THEN "list" ELSE "returned"

\* Variant of TopicFor: one topic shared by all websets.
TopicForShared(id) == 0

\* fmt.Sprintf("websets-%s", websetID): the topic is named after the webset.
TopicFor(id) == id

\* RunWebsetsPipeline is called.
RunWebsetsPipeline ==
    /\ ppc = "idle"
    /\ ppc' = "create"
    /\ UNCHANGED <<opc, sessionStatus, active, count, drones, provPc,
                   hostCreated, deletes, nSub, dispSnap, dispIdx, instructed,
                   results, waitDeadline, startTime, outcome, monPc, colPc,
                   cleanPc, cleanSnap, cleanupSpawned, topicDeleted, clock,
                   racyWrites, queueVars, clientVars, elicitVars, websetId,
                   lastPoll, pClock, pDeadline, pItems, pIdx, pubCalls,
                   pubAccepted, pubTopics, pOutcome, regVars>>

\* Step 1, CreateWebset: the resourceId of the response becomes the webset
\* id; any error is returned as "failed to create webset". On success
\* WaitForWebsetCompletion starts and computes its deadline.
CreateWebset(r, id) ==
    /\ ppc = "create"
    /\ r = "ok" \/ id = 1
    /\ IF r = "ok"
       THEN /\ websetId' = id
            /\ pDeadline' = pClock + PollTimeout
            /\ ppc' = "wait"
            /\ UNCHANGED pOutcome
       ELSE /\ pOutcome' = PipelineError(Wrap("failed to create webset", CreateError(r)))
            /\ ppc' = "returned"
            /\ UNCHANGED <<websetId, pDeadline>>
    /\ UNCHANGED <<opc, sessionStatus, active, count, drones, provPc,
                   hostCreated, deletes, nSub, dispSnap, dispIdx, instructed,
                   results, waitDeadline, startTime, outcome, monPc, colPc,
                   cleanPc, cleanSnap, cleanupSpawned, topicDeleted, clock,
                   racyWrites, queueVars, clientVars, elicitVars, lastPoll,
                   pClock, pItems, pIdx, pubCalls, pubAccepted, pubTopics,
                   regVars>>

\* Step 2, one ticker period of WaitForWebsetCompletion: the deadline is
\* checked first (timeout error), then the status is polled. completed ends
\* the wait with nil, failed with an error; a Call error, an unparsable or
\* status-less response and every other status go on to the next period. An
\* error of the wait is returned as "webset processing failed".
WaitTick(resp) ==
    /\ ppc = "wait"
    /\ pClock' = pClock + 1
    /\ LET timeout == DeadlinePassed(pClock + 1, pDeadline)
           verdict == IF timeout THEN "timeout"
                      ELSE IF resp \in WebsetStatuses THEN AfterStatus(resp)
                      ELSE "continue"
           err == CASE verdict = "timeout" -> <<"webset completion timeout">>
                    [] verdict = "failed" -> <<"webset processing failed">>
                    [] OTHER -> NoError
       IN  /\ lastPoll' = IF timeout THEN lastPoll ELSE resp
           /\ IF verdict = "continue"
              THEN UNCHANGED <<ppc, pOutcome>>
              ELSE /\ ppc' = AfterWait(err)
                   /\ pOutcome' = IF err = NoError THEN pOutcome
                                  ELSE PipelineError(Wrap("webset processing failed", err))
    /\ UNCHANGED <<opc, sessionStatus, active, count, drones, provPc,
                   hostCreated, deletes, nSub, dispSnap, dispIdx, instructed,
                   results, waitDeadline, startTime, outcome, monPc, colPc,
                   cleanPc, cleanSnap, cleanupSpawned, topicDeleted, clock,
                   racyWrites, queueVars, clientVars, elicitVars, websetId,
                   pDeadline, pItems, pIdx, pubCalls, pubAccepted, pubTopics,
                   regVars>>

\* Step 3, ListContentItems: n is the number of objects in the "items" array
\* of the response (a response without the array gives no items); an error is
\* returned as "failed to list content items". With no items step 4 is skipped.
ListContentItems(r, n) ==
    /\ ppc = "list"
    /\ r = "ok" \/ n = 0
    /\ IF r \in {"ok", "noItems"}
       THEN /\ pItems' = n
            /\ ppc' = IF n > 0 THEN "topic" ELSE "result"
            /\ UNCHANGED pOutcome
       ELSE /\ pOutcome' = PipelineError(Wrap("failed to list content items", ListError(r)))
            /\ ppc' = "returned"
            /\ UNCHANGED pItems
    /\ UNCHANGED <<opc, sessionStatus, active, count, drones, provPc,
                   hostCreated, deletes, nSub, dispSnap, dispIdx, instructed,
                   results, waitDeadline, startTime, outcome, monPc, colPc,
                   cleanPc, cleanSnap, cleanupSpawned, topicDeleted, clock,
                   racyWrites, queueVars, clientVars, elicitVars, websetId,
                   lastPoll, pClock, pDeadline, pIdx, pubCalls, pubAccepted,
                   pubTopics, regVars>>

\* Step 4, the topic is looked up and created when missing; an error of
\* either call is returned.
EnsureTopic(r) ==
    /\ ppc = "topic"
    /\ IF r \in {"exists", "created"}
       THEN /\ ppc' = "publish"
            /\ pIdx' = 0
            /\ UNCHANGED pOutcome
       ELSE /\ pOutcome' = PipelineError(
                              Wrap(IF r = "existsError" THEN "failed to check topic existence"
                                   ELSE "failed to create topic", <<"bus error">>))
            /\ ppc' = "returned"
            /\ UNCHANGED pIdx
    /\ UNCHANGED <<opc, sessionStatus, active, count, drones, provPc,
                   hostCreated, deletes, nSub, dispSnap, dispIdx, instructed,
                   results, waitDeadline, startTime, outcome, monPc, colPc,
                   cleanPc, cleanSnap, cleanupSpawned, topicDeleted, clock,
                   racyWrites, queueVars, clientVars, elicitVars, websetId,
                   lastPoll, pClock, pDeadline, pItems, pubCalls, pubAccepted,
                   pubTopics, regVars>>

\* Step 4, one iteration of the publish loop: the item (decoded from JSON, so
\* json.Marshal takes it) is published on the webset's topic; a publish the
\* bus does not confirm is logged only.
PublishItem(confirmed) ==
    /\ ppc = "publish"
    /\ pIdx < pItems
    /\ pIdx' = pIdx + 1
    /\ pubCalls' = pubCalls + 1
    /\ pubAccepted' = IF confirmed THEN pubAccepted + 1 ELSE pubAccepted
    /\ pubTopics' = pubTopics \cup {TopicFor(websetId)}
    /\ ppc' = IF pIdx + 1 >= pItems THEN "result" ELSE "publish"
    /\ UNCHANGED <<opc, sessionStatus, active, count, drones, provPc,
                   hostCreated, deletes, nSub, dispSnap, dispIdx, instructed,
                   results, waitDeadline, startTime, outcome, monPc, colPc,
                   cleanPc, cleanSnap, cleanupSpawned, topicDeleted, clock,
                   racyWrites, queueVars, clientVars, elicitVars, websetId,
                   lastPoll, pClock, pDeadline, pItems, pOutcome, regVars>>

\* Step 5: the result is built from the webset id and len(items).
PipelineResult ==
    /\ ppc = "result"
    /\ pOutcome' = [status |-> "completed", itemCount |-> pItems, err |-> NoError]
    /\ ppc' = "returned"
    /\ UNCHANGED <<opc, sessionStatus, active, count, drones, provPc,
                   hostCreated, deletes, nSub, dispSnap, dispIdx, instructed,
                   results, waitDeadline, startTime, outcome, monPc, colPc,
                   cleanPc, cleanSnap, cleanupSpawned, topicDeleted, clock,
                   racyWrites, queueVars, clientVars, elicitVars, websetId,
                   lastPoll, pClock, pDeadline, pItems, pIdx, pubCalls,
                   pubAccepted, pubTopics, regVars>>

NextPipeline ==
    \/ RunWebsetsPipeline
    \/ \E r \in CreateResponses, id \in WebsetIds : CreateWebset(r, id)
    \/ \E resp \in PollResponses : WaitTick(resp)
    \/ \E r \in ListResponses, n \in 0..MaxItems : ListContentItems(r, n)
    \/ \E r \in TopicResponses : EnsureTopic(r)
    \/ \E confirmed \in BOOLEAN : PublishItem(confirmed)
    \/ PipelineResult

SpecPipeline == Init /\ [][NextPipeline]_vars

\* The ticker of WaitForWebsetCompletion keeps firing and every poll returns.
FairSpecPipeline == SpecPipeline /\ WF_vars(\E resp \in PollResponses : WaitTick(resp))

\* ------------------------------------------------------ claims on the pipeline

\* The step in which WaitForWebsetCompletion returns.
WaitEnds == ppc = "wait" /\ ppc' # "wait"

\* The errors RunWebsetsPipeline returns for a failed and for an overdue webset.
ProcessingFailed == <<"webset processing failed", "webset processing failed">>
CompletionTimeout == <<"webset processing failed", "webset completion timeout">>

PipelineOrder ==
    {<<"idle", "create">>, <<"create", "wait">>, <<"wait", "list">>,
     <<"list", "topic">>, <<"list", "result">>, <<"topic", "publish">>,
     <<"publish", "result">>, <<"result", "returned">>,
     <<"create", "returned">>, <<"wait", "returned">>, <<"list", "returned">>,
     <<"topic", "returned">>}

\* C29: in the websets pipeline items are published on the bus only after
\* create, poll-until-completed and list have all succeeded, in that order;
\* if the webset's status is failed the pipeline returns an error whose
\* message contains "webset processing failed" and no bus publish occurs.
C29_PublishOnlyAfterSuccess ==
    /\ [][(ppc' # ppc) => (<<ppc, ppc'>> \in PipelineOrder)]_vars
    /\ [](ppc \in {"topic", "publish"} \/ pubCalls > 0
            => (/\ websetId \in WebsetIds
                /\ lastPoll = "completed"
                /\ pItems > 0
                /\ pOutcome.err = NoError))
    /\ []((ppc = "returned" /\ lastPoll = "failed")
            => (/\ pOutcome.status = "nil"
                /\ ErrorContains(pOutcome.err, "webset processing failed")
                /\ pubCalls = 0))

\* C29 witness: a webset was created, a poll gave status failed, and the
\* pipeline returned the error without a publish.
C29_Witness ==
    /\ ppc = "returned"
    /\ websetId \in WebsetIds
    /\ lastPoll = "failed"
    /\ pOutcome.err = ProcessingFailed
    /\ pubCalls = 0

\* C30: a successful pipeline run that lists n items returns status completed
\* with item_count = n and has made exactly n bus publishes, all of them on
\* the topic of its webset.
C30_SuccessfulRun ==
    (ppc = "returned" /\ pOutcome.err = NoError)
        => (/\ pOutcome.status = "completed"
            /\ pOutcome.itemCount = pItems
            /\ pubCalls = pItems
            /\ pubTopics = IF pItems > 0 THEN {websetId} ELSE {})

\* C30 witness: a run for the second webset listed two items, published both
\* on that webset's topic and returned completed with item_count 2.
C30_Witness ==
    /\ ppc = "returned"
    /\ pOutcome = [status |-> "completed", itemCount |-> MaxItems, err |-> NoError]
    /\ websetId = 2
    /\ pubCalls = MaxItems
    /\ pubAccepted = MaxItems
    /\ pubTopics = {2}

\* ------------------------------------------------------ more claims on elicitation

\* The step in which handleOrchestrateResearch answers a request for sid.
OrchestrateRequest(sid) ==
    /\ eResp' # eResp
    /\ eResp'.type \in {"error", "orchestrate"}
    /\ eResp'.reqSid = sid

\* C31: a research session is created only when elicitation has completed: an
\* orchestrate-research request for a session id whose elicitation state is
\* not complete, or is unknown, is answered with an error and never reaches
\* OrchestrateResearch, the call that creates the session and provisions the
\* workers; only a request for a complete session reaches it.
C31_SessionOnlyAfterElicitation ==
    [][\A sid \in 0..MaxSessions :
          OrchestrateRequest(sid)
          => (/\ (~Known(sid) \/ eState[sid] # "complete") => (eResp'.type = "error")
              /\ (eResp'.type = "orchestrate") => (Known(sid) /\ eState[sid] = "complete")
              /\ (eResp'.type = "error") => (opc' = opc /\ active' = active /\ provPc' = provPc))]_vars

\* C31 witness: an orchestrate-research request for a session id that was
\* never created was answered with an error while another session is
\* complete; no research session exists.
C31_Witness ==
    /\ eResp.type = "error"
    /\ eResp.reqSid \in SessionIds
    /\ ~Known(eResp.reqSid)
    /\ \E s \in SessionIds : eState[s] = "complete"
    /\ opc = "idle"
    /\ ~active

\* ====================================== GetResearchConfig over its inputs
\* A manager holding one complete session whose stored answers are drawn from
\* the values a caller can supply: missing, empty or wrongly typed topic, and
\* numbers below, on and above the documented limits, as int and as float64.

CountNumbers == {0, 1, 100, 101}
TimeoutNumbers == {4, 5, 1440, 1441}
TopicAnswers == {Unset, [type |-> "string", val |-> 0], [type |-> "string", val |-> 1],
                 [type |-> "float64", val |-> 20]}
NumberAnswers(ns) ==
    {Unset, [type |-> "string", val |-> 1], [type |-> "float64", val |-> 27]}
        \cup {[type |-> "int", val |-> n] : n \in ns}
        \cup {[type |-> "float64", val |-> 10 * n] : n \in ns}
ConfigAnswers ==
    {a \in [AnswerKeys -> TopicAnswers \cup NumberAnswers(CountNumbers)
                              \cup NumberAnswers(TimeoutNumbers)] :
        /\ a["research_topic"] \in TopicAnswers
        /\ a["researcher_count"] \in NumberAnswers(CountNumbers)
        /\ a["timeout_minutes"] \in NumberAnswers(TimeoutNumbers)}

\* Session 1 has gone through its three ProcessAnswers calls and holds the
\* answers a; the cleanupOldSessions goroutine of its creation has run.
CompleteSession(a) ==
    /\ eState = [i \in SessionIds |-> IF i = 1 THEN "complete" ELSE "absent"]
    /\ eAnswers = [i \in SessionIds |-> IF i = 1 THEN a ELSE NoAnswers]
    /\ eUpdated = [i \in SessionIds |-> 0]
    /\ eCalls = [i \in SessionIds |-> IF i = 1 THEN 3 ELSE 0]
    /\ eNextId = 1
    /\ evictPending = 0
    /\ eTime = 0
    /\ rq = [h \in Handlers |-> NoRequest]
    /\ eResp = NoResponse

InitConfig ==
    /\ InitOrchestrator
    /\ QueueWithBacklog(0, 0)
    /\ InitClient
    /\ \E a \in ConfigAnswers : CompleteSession(a)
    /\ InitPipeline
    /\ InitRegistry

NextConfig ==
    \E h \in Handlers, sid \in 0..MaxSessions : handleOrchestrateResearch(h, sid)

SpecConfig == InitConfig /\ [][NextConfig]_vars

\* C32: every ResearchConfig the elicitation manager emits is validated: its
\* topic is non-empty, its researcher count is within 1..100 and its timeout
\* within 5..1440 minutes, whatever answers were supplied or omitted.
C32_ConfigValidated ==
    ~eResp.config.nil
        => (/\ eResp.config.topic # 0
            /\ eResp.config.count \in 1..100
            /\ eResp.config.timeout \in 5..1440)

\* float64(n) for an answer holding the int n; other answers as they are.
FloatTwin(v) ==
    IF v.type = "int" THEN [type |-> "float64", val |-> 10 * v.val] ELSE v

\* C33: a numeric answer (researcher count, timeout) supplied as an integer
\* and the same number supplied as a floating-point value produce identical
\* ResearchConfig values: the emitted configuration is the one built from the
\* same answers with every int replaced by the float64 of the same number.
C33_IntFloatSameConfig ==
    ~eResp.config.nil
        => eResp.config = BuildConfig(eResp.sid,
                                      [k \in AnswerKeys |-> FloatTwin(eAnswers[eResp.sid][k])])

\* C33 witness: a configuration was emitted from a researcher count and a
\* timeout both held as int; it carries those numbers.
C33_Witness ==
    /\ ~eResp.config.nil
    /\ eAnswers[eResp.sid]["researcher_count"] = [type |-> "int", val |-> 100]
    /\ eAnswers[eResp.sid]["timeout_minutes"] = [type |-> "int", val |-> 5]
    /\ eResp.config.count = 100
    /\ eResp.config.timeout = 5

\* ------------------------------------------------- claims on session eviction

\* C34: a session is removed from the sessions map only if, at the moment of
\* removal, its last update lies more than one hour back; this holds for every
\* step of every interleaving of handlers and cleanup goroutines.
C34_EvictOnlyOld ==
    [][\A i \in SessionIds :
          (eState[i] # "absent" /\ eState'[i] = "absent")
              => eTime - eUpdated[i] > Hour]_vars

\* C34 witness: a cleanup has evicted one session and left in place a session
\* last updated exactly one hour before.
C34_Witness ==
    \E i, j \in SessionIds :
        /\ i <= eNextId /\ eState[i] = "absent"
        /\ j <= eNextId /\ eState[j] # "absent"
        /\ eUpdated[j] = eTime - Hour
        /\ evictPending = 0

\* ------------------------------------------------ claims on the closed queue

\* C35: the consumer never sends on the result or error channel after Close
\* has closed them: no callback has run its channel send on a closed queue
\* (such a send panics).
C35_NoSendAfterClose == panicked = 0

\* C36: every entry of the collected results is a message that was published
\* (and decoded); in particular the collector appends nothing that it read
\* from the closed channel.
C36_ResultsWerePublished ==
    \A i \in 1..Len(results) :
        results[i] \in Payloads /\ published[results[i]] > 0

\* C37: a decode failure never stalls the consumer: whenever an undecodable
\* message is waiting for an open, subscribed queue, the callback can run to
\* its Nack, also with ten errors pending unread in the error channel.
C37_DecodeFailureNeverStalls ==
    (subscribed /\ ~qClosed /\ bus[BadPayload] > 0)
        => ENABLED HandleMessage(BadPayload)

\* ------------------------------------------- claims on concurrent recovery

\* C38: when concurrent calls hit a transport error, the recovery of a call
\* closes no session but the one that call failed on (so never the session a
\* recovery of the other call has just established), and at most one child
\* session is live.
C38_RecoveryKeepsNewSession ==
    /\ [][\A c \in Callers :
            (cpc[c] = "recover" /\ cpc'[c] = "connect")
                => (closedSess' \ closedSess) \subseteq {cLocal[c]}]_vars
    /\ [](Cardinality(LiveSessions) <= 1)

\* ============================================== the session registry
\* Concurrent orchestrate-research requests on one orchestrator. Each call of
\* OrchestrateResearch is followed through the points where it touches what
\* calls share: the activeSessions map, the queue made for the session id and
\* the worker names derived from it.

\* handleOrchestrateResearch and the first critical section of
\* OrchestrateResearch: a nil configuration is answered with an error;
\* otherwise, under o.mu, a new ResearchSession with a new ResearchQueue is
\* made for config.SessionID and stored in o.activeSessions under that id.
RegisterSession(h, sid) ==
    /\ rq[h].pc = "idle"
    /\ runs[h].pc = "idle"
    /\ SumOver(queuesMade, SessionIds) < MaxRuns
    /\ eResp' = [type |-> AfterConfigLookup(GetResearchConfig(sid)),
                 sid |-> sid, reqSid |-> sid, found |-> Known(sid),
                 questions |-> "nil", config |-> GetResearchConfig(sid)]
    /\ IF AfterConfigLookup(GetResearchConfig(sid)) = "orchestrate"
       THEN /\ runs' = [runs EXCEPT ![h] = [pc |-> "registered", sid |-> sid,
                                            count |-> GetResearchConfig(sid).count]]
            /\ entryOf' = [entryOf EXCEPT ![sid] = h]
            /\ queuesMade' = [queuesMade EXCEPT ![sid] = @ + 1]
       ELSE UNCHANGED <<runs, entryOf, queuesMade>>
    /\ UNCHANGED <<opc, sessionStatus, active, count, drones, provPc,
                   hostCreated, deletes, nSub, dispSnap, dispIdx, instructed,
                   results, waitDeadline, startTime, outcome, monPc, colPc,
                   cleanPc, cleanSnap, cleanupSpawned, topicDeleted, clock,
                   racyWrites, queueVars, clientVars, eState, eAnswers, eUpdated,
                   eCalls, eNextId, evictPending, eTime, rq, pipeVars, deployReqs>>

\* provisionDrones: one CreateService request per worker, named
\* drone-<session id>-<index>; ~ok: a deployment failed and the call returns
\* its error, the map entry staying where it is.
ProvisionSession(h, ok) ==
    /\ runs[h].pc = "registered"
    /\ deployReqs' = [deployReqs EXCEPT ![runs[h].sid] =
                        IF runs[h].count > 0 THEN @ + 1 ELSE @]
    /\ runs' = [runs EXCEPT ![h] = IF ok THEN [@ EXCEPT !.pc = "provisioned"] ELSE NoRun]
    /\ UNCHANGED <<opc, sessionStatus, active, count, drones, provPc,
                   hostCreated, deletes, nSub, dispSnap, dispIdx, instructed,
                   results, waitDeadline, startTime, outcome, monPc, colPc,
                   cleanPc, cleanSnap, cleanupSpawned, topicDeleted, clock,
                   racyWrites, queueVars, clientVars, elicitVars, pipeVars,
                   entryOf, queuesMade>>

\* The rest of the call: coordinateResearch, waitForCompletion and
\* generateReport. On success cleanupSession is started and the result
\* returned; on an error the call returns without cleanup.
FinishSession(h, ok) ==
    /\ runs[h].pc = "provisioned"
    /\ runs' = [runs EXCEPT ![h] = IF ok THEN [@ EXCEPT !.pc = "cleanup"] ELSE NoRun]
    /\ UNCHANGED <<opc, sessionStatus, active, count, drones, provPc,
                   hostCreated, deletes, nSub, dispSnap, dispIdx, instructed,
                   results, waitDeadline, startTime, outcome, monPc, colPc,
                   cleanPc, cleanSnap, cleanupSpawned, topicDeleted, clock,
                   racyWrites, queueVars, clientVars, elicitVars, pipeVars,
                   entryOf, queuesMade, deployReqs>>

\* cleanupSession, last step: delete(o.activeSessions, session.Config.SessionID)
\* under o.mu, whichever session object the map holds under that id.
RemoveSession(h) ==
    /\ runs[h].pc = "cleanup"
    /\ entryOf' = [entryOf EXCEPT ![runs[h].sid] = 0]
    /\ runs' = [runs EXCEPT ![h] = NoRun]
    /\ UNCHANGED <<opc, sessionStatus, active, count, drones, provPc,
                   hostCreated, deletes, nSub, dispSnap, dispIdx, instructed,
                   results, waitDeadline, startTime, outcome, monPc, colPc,
                   cleanPc, cleanSnap, cleanupSpawned, topicDeleted, clock,
                   racyWrites, queueVars, clientVars, elicitVars, pipeVars,
                   queuesMade, deployReqs>>

NextSessions ==
    \/ \E h \in Handlers, sid \in 0..MaxSessions : RegisterSession(h, sid)
    \/ \E h \in Handlers, ok \in BOOLEAN : ProvisionSession(h, ok)
    \/ \E h \in Handlers, ok \in BOOLEAN : FinishSession(h, ok)
    \/ \E h \in Handlers : RemoveSession(h)

SpecSessions == InitConfig /\ [][NextSessions]_vars

\* Handlers whose OrchestrateResearch call for session id sid has registered
\* its session and not yet returned.
Running(sid) ==
    {h \in Handlers : runs[h].sid = sid /\ runs[h].pc \in {"registered", "provisioned"}}

\* C39: at most one research session is live per session id: while a call for
\* an id is under way, no step replaces the map entry of that id or makes
\* another queue for it, and no second call for the id is under way.
C39_OneLiveSessionPerId ==
    /\ [][\A sid \in SessionIds :
            Running(sid) # {}
                => (entryOf'[sid] = entryOf[sid] /\ queuesMade'[sid] = queuesMade[sid])]_vars
    /\ [](\A sid \in SessionIds : Cardinality(Running(sid)) <= 1)

\* ============================== a session for any count elicitation emits
\* GetResearchConfig hands on whatever number the researcher_count answer
\* holds; the run below adds the count 0 to the counts of Next.

\* generateReport with no collected result: analyzeResults evaluates
\* results[0].CompletedAt, an index out of range, and the call panics.
ReportPanic ==
    /\ opc = "report"
    /\ Len(results) = 0
    /\ outcome' = Failure("panic: index out of range")
    /\ opc' = "panicked"
    /\ UNCHANGED <<sessionStatus, active, count, drones, provPc, hostCreated,
                   deletes, nSub, dispSnap, dispIdx, instructed, results,
                   waitDeadline, startTime, monPc, colPc, cleanPc, cleanSnap,
                   cleanupSpawned, topicDeleted, clock, racyWrites, queueVars,
                   clientVars, elicitVars, pipeVars, regVars>>

NextAnyCount ==
    \/ Next
    \/ OrchestrateResearch(0)
    \/ ReportPanic

SpecAnyCount == Init /\ [][NextAnyCount]_vars

\* C40: report assembly is entered only with at least one collected result,
\* for every researcher count a configuration can carry.
C40_ReportHasResults == opc = "report" => Len(results) >= 1

====
